---- MODULE Spec2Model ----
(***************************************************************************)
(* Model of export_script.py (r/watchexchange listing export).             *)
(*                                                                         *)
(* A character is its Unicode code point, a natural number, and a text is  *)
(* a sequence of characters: "$12" is <<36, 49, 50>>.  The module writes   *)
(* its texts with Text, which takes the characters as strings:             *)
(* Text(<<"$","1","2">>), a character after ASCII as "U+" and its code     *)
(* point in hexadecimal ("U+20AC" is the euro sign).  Python's None is the *)
(* value None, which differs from every text, the empty text <<>>          *)
(* included.                                                               *)
(*                                                                         *)
(* The patterns of the program are str patterns compiled without re.ASCII, *)
(* so \s, \d, \w, \b and re.I follow Unicode.  The tables below are those  *)
(* of CPython 3.11 (Unicode 14), complete over all code points:            *)
(*   \s, str.strip, str.split   the 29 whitespace characters;              *)
(*   \d                         the 660 decimal digits;                    *)
(*   \w, \b                     the 133548 word characters;                *)
(*   re.I                       A-Z with a-z, and also U+0130 and U+0131   *)
(*                              with i, U+017F with s, U+212A with k;      *)
(*   str.upper                  the 1525 characters it changes, some into  *)
(*                              several characters (U+00DF into "SS").     *)
(***************************************************************************)
EXTENDS Integers, Sequences, FiniteSets, TLC

VARIABLES
    pc,         \* position of main(): "start", "scan", "frame", "write", "done", "aborted"
    source,     \* the posts the listing iterator of line 133 yields, in order
    cutoff,     \* line 128: the cutoff instant
    idx,        \* number of posts the for loop has taken from the iterator
    rows,       \* line 130: the collected records
    df,         \* lines 159-163: the frame handed to to_csv
    files,      \* the files written by line 167, each the sequence of its rows
    abort,      \* why the run aborted: "none", "env", "source", "KeyError"
    title,      \* extractor harness: title / sole text argument
    body,       \* extractor harness: body argument
    called,     \* extractor harness: which extractor has run ("" before the call)
    ret         \* extractor harness: the value returned

vars == <<pc, source, cutoff, idx, rows, df, files, abort, title, body, called, ret>>
mainVars == <<pc, source, cutoff, idx, rows, df, files, abort>>
harnessVars == <<title, body, called, ret>>

(***************************************************************************)
(* Characters and strings                                                  *)
(***************************************************************************)
None == <<-1>>
Range(s) == {s[i] : i \in DOMAIN s}

\* the printable ASCII characters from code point 32 to 95 and from 97 to
\* 126; the grave accent (96) is not written as a string
Printable == <<" ","!","\"","#","$","%","&","'","(",")","*","+",",","-",".","/",
               "0","1","2","3","4","5","6","7","8","9",":",";","<","=",">","?",
               "@","A","B","C","D","E","F","G","H","I","J","K","L","M","N","O",
               "P","Q","R","S","T","U","V","W","X","Y","Z","[","\\","]","^","_">>
PrintableHigh == <<"a","b","c","d","e","f","g","h","i","j","k","l","m","n","o",
                   "p","q","r","s","t","u","v","w","x","y","z","{","|","}","~">>

\* the other characters the texts of this module are written with
Named == << <<"\t", 9>>, <<"\n", 10>>, <<"\f", 12>>, <<"\r", 13>>,
            <<"U+00A0", 160>>, <<"U+00DF", 223>>, <<"U+00E9", 233>>, <<"U+017F", 383>>,
            <<"U+0661", 1633>>, <<"U+0662", 1634>>, <<"U+0E01", 3585>>,
            <<"U+2019", 8217>>, <<"U+20AC", 8364>>, <<"U+212A", 8490>> >>

\* ord(c) of a character written as a string
Ord ==
    [c \in Range(Printable) \cup Range(PrintableHigh) \cup {Named[k][1] : k \in DOMAIN Named} |->
        IF c \in Range(Printable) THEN 31 + (CHOOSE k \in DOMAIN Printable : Printable[k] = c)
        ELSE IF c \in Range(PrintableHigh)
        THEN 96 + (CHOOSE k \in DOMAIN PrintableHigh : PrintableHigh[k] = c)
        ELSE Named[CHOOSE k \in DOMAIN Named : Named[k][1] = c][2]]

\* the text whose characters are written as the strings of s
Text(s) == [i \in DOMAIN s |-> Ord[s[i]]]

EURO == 8364
RSQUO == 8217
NL == 10

\* [A-Z] and [a-z]
Uppers == 65..90
Lowers == 97..122
CaseGap == 32
MaxAscii == 127
IsUpper(c) == c \in Uppers
IsLower(c) == c \in Lowers

\* the whitespace characters
Spaces == {
    9, 10, 11, 12, 13, 28, 29, 30, 31, 32, 133, 160, 5760, 8192, 8193, 8194, 8195, 8196, 8197,
    8198, 8199, 8200, 8201, 8202, 8232, 8233, 8239, 8287, 12288}

\* the decimal digits, as ranges <<first, last>> of code points
DigitRanges == {
    <<48,57>>, <<1632,1641>>, <<1776,1785>>, <<1984,1993>>, <<2406,2415>>, <<2534,2543>>,
    <<2662,2671>>, <<2790,2799>>, <<2918,2927>>, <<3046,3055>>, <<3174,3183>>, <<3302,3311>>,
    <<3430,3439>>, <<3558,3567>>, <<3664,3673>>, <<3792,3801>>, <<3872,3881>>, <<4160,4169>>,
    <<4240,4249>>, <<6112,6121>>, <<6160,6169>>, <<6470,6479>>, <<6608,6617>>, <<6784,6793>>,
    <<6800,6809>>, <<6992,7001>>, <<7088,7097>>, <<7232,7241>>, <<7248,7257>>, <<42528,42537>>,
    <<43216,43225>>, <<43264,43273>>, <<43472,43481>>, <<43504,43513>>, <<43600,43609>>,
    <<44016,44025>>, <<65296,65305>>, <<66720,66729>>, <<68912,68921>>, <<69734,69743>>,
    <<69872,69881>>, <<69942,69951>>, <<70096,70105>>, <<70384,70393>>, <<70736,70745>>,
    <<70864,70873>>, <<71248,71257>>, <<71360,71369>>, <<71472,71481>>, <<71904,71913>>,
    <<72016,72025>>, <<72784,72793>>, <<73040,73049>>, <<73120,73129>>, <<92768,92777>>,
    <<92864,92873>>, <<93008,93017>>, <<120782,120831>>, <<123200,123209>>, <<123632,123641>>,
    <<125264,125273>>, <<130032,130041>>}

\* the word characters after ASCII (letters, digits, numbers), as ranges
WordRanges == {
    <<170,170>>, <<178,179>>, <<181,181>>, <<185,186>>, <<188,190>>, <<192,214>>, <<216,246>>,
    <<248,705>>, <<710,721>>, <<736,740>>, <<748,748>>, <<750,750>>, <<880,884>>, <<886,887>>,
    <<890,893>>, <<895,895>>, <<902,902>>, <<904,906>>, <<908,908>>, <<910,929>>, <<931,1013>>,
    <<1015,1153>>, <<1162,1327>>, <<1329,1366>>, <<1369,1369>>, <<1376,1416>>, <<1488,1514>>,
    <<1519,1522>>, <<1568,1610>>, <<1632,1641>>, <<1646,1647>>, <<1649,1747>>, <<1749,1749>>,
    <<1765,1766>>, <<1774,1788>>, <<1791,1791>>, <<1808,1808>>, <<1810,1839>>, <<1869,1957>>,
    <<1969,1969>>, <<1984,2026>>, <<2036,2037>>, <<2042,2042>>, <<2048,2069>>, <<2074,2074>>,
    <<2084,2084>>, <<2088,2088>>, <<2112,2136>>, <<2144,2154>>, <<2160,2183>>, <<2185,2190>>,
    <<2208,2249>>, <<2308,2361>>, <<2365,2365>>, <<2384,2384>>, <<2392,2401>>, <<2406,2415>>,
    <<2417,2432>>, <<2437,2444>>, <<2447,2448>>, <<2451,2472>>, <<2474,2480>>, <<2482,2482>>,
    <<2486,2489>>, <<2493,2493>>, <<2510,2510>>, <<2524,2525>>, <<2527,2529>>, <<2534,2545>>,
    <<2548,2553>>, <<2556,2556>>, <<2565,2570>>, <<2575,2576>>, <<2579,2600>>, <<2602,2608>>,
    <<2610,2611>>, <<2613,2614>>, <<2616,2617>>, <<2649,2652>>, <<2654,2654>>, <<2662,2671>>,
    <<2674,2676>>, <<2693,2701>>, <<2703,2705>>, <<2707,2728>>, <<2730,2736>>, <<2738,2739>>,
    <<2741,2745>>, <<2749,2749>>, <<2768,2768>>, <<2784,2785>>, <<2790,2799>>, <<2809,2809>>,
    <<2821,2828>>, <<2831,2832>>, <<2835,2856>>, <<2858,2864>>, <<2866,2867>>, <<2869,2873>>,
    <<2877,2877>>, <<2908,2909>>, <<2911,2913>>, <<2918,2927>>, <<2929,2935>>, <<2947,2947>>,
    <<2949,2954>>, <<2958,2960>>, <<2962,2965>>, <<2969,2970>>, <<2972,2972>>, <<2974,2975>>,
    <<2979,2980>>, <<2984,2986>>, <<2990,3001>>, <<3024,3024>>, <<3046,3058>>, <<3077,3084>>,
    <<3086,3088>>, <<3090,3112>>, <<3114,3129>>, <<3133,3133>>, <<3160,3162>>, <<3165,3165>>,
    <<3168,3169>>, <<3174,3183>>, <<3192,3198>>, <<3200,3200>>, <<3205,3212>>, <<3214,3216>>,
    <<3218,3240>>, <<3242,3251>>, <<3253,3257>>, <<3261,3261>>, <<3293,3294>>, <<3296,3297>>,
    <<3302,3311>>, <<3313,3314>>, <<3332,3340>>, <<3342,3344>>, <<3346,3386>>, <<3389,3389>>,
    <<3406,3406>>, <<3412,3414>>, <<3416,3425>>, <<3430,3448>>, <<3450,3455>>, <<3461,3478>>,
    <<3482,3505>>, <<3507,3515>>, <<3517,3517>>, <<3520,3526>>, <<3558,3567>>, <<3585,3632>>,
    <<3634,3635>>, <<3648,3654>>, <<3664,3673>>, <<3713,3714>>, <<3716,3716>>, <<3718,3722>>,
    <<3724,3747>>, <<3749,3749>>, <<3751,3760>>, <<3762,3763>>, <<3773,3773>>, <<3776,3780>>,
    <<3782,3782>>, <<3792,3801>>, <<3804,3807>>, <<3840,3840>>, <<3872,3891>>, <<3904,3911>>,
    <<3913,3948>>, <<3976,3980>>, <<4096,4138>>, <<4159,4169>>, <<4176,4181>>, <<4186,4189>>,
    <<4193,4193>>, <<4197,4198>>, <<4206,4208>>, <<4213,4225>>, <<4238,4238>>, <<4240,4249>>,
    <<4256,4293>>, <<4295,4295>>, <<4301,4301>>, <<4304,4346>>, <<4348,4680>>, <<4682,4685>>,
    <<4688,4694>>, <<4696,4696>>, <<4698,4701>>, <<4704,4744>>, <<4746,4749>>, <<4752,4784>>,
    <<4786,4789>>, <<4792,4798>>, <<4800,4800>>, <<4802,4805>>, <<4808,4822>>, <<4824,4880>>,
    <<4882,4885>>, <<4888,4954>>, <<4969,4988>>, <<4992,5007>>, <<5024,5109>>, <<5112,5117>>,
    <<5121,5740>>, <<5743,5759>>, <<5761,5786>>, <<5792,5866>>, <<5870,5880>>, <<5888,5905>>,
    <<5919,5937>>, <<5952,5969>>, <<5984,5996>>, <<5998,6000>>, <<6016,6067>>, <<6103,6103>>,
    <<6108,6108>>, <<6112,6121>>, <<6128,6137>>, <<6160,6169>>, <<6176,6264>>, <<6272,6276>>,
    <<6279,6312>>, <<6314,6314>>, <<6320,6389>>, <<6400,6430>>, <<6470,6509>>, <<6512,6516>>,
    <<6528,6571>>, <<6576,6601>>, <<6608,6618>>, <<6656,6678>>, <<6688,6740>>, <<6784,6793>>,
    <<6800,6809>>, <<6823,6823>>, <<6917,6963>>, <<6981,6988>>, <<6992,7001>>, <<7043,7072>>,
    <<7086,7141>>, <<7168,7203>>, <<7232,7241>>, <<7245,7293>>, <<7296,7304>>, <<7312,7354>>,
    <<7357,7359>>, <<7401,7404>>, <<7406,7411>>, <<7413,7414>>, <<7418,7418>>, <<7424,7615>>,
    <<7680,7957>>, <<7960,7965>>, <<7968,8005>>, <<8008,8013>>, <<8016,8023>>, <<8025,8025>>,
    <<8027,8027>>, <<8029,8029>>, <<8031,8061>>, <<8064,8116>>, <<8118,8124>>, <<8126,8126>>,
    <<8130,8132>>, <<8134,8140>>, <<8144,8147>>, <<8150,8155>>, <<8160,8172>>, <<8178,8180>>,
    <<8182,8188>>, <<8304,8305>>, <<8308,8313>>, <<8319,8329>>, <<8336,8348>>, <<8450,8450>>,
    <<8455,8455>>, <<8458,8467>>, <<8469,8469>>, <<8473,8477>>, <<8484,8484>>, <<8486,8486>>,
    <<8488,8488>>, <<8490,8493>>, <<8495,8505>>, <<8508,8511>>, <<8517,8521>>, <<8526,8526>>,
    <<8528,8585>>, <<9312,9371>>, <<9450,9471>>, <<10102,10131>>, <<11264,11492>>,
    <<11499,11502>>, <<11506,11507>>, <<11517,11517>>, <<11520,11557>>, <<11559,11559>>,
    <<11565,11565>>, <<11568,11623>>, <<11631,11631>>, <<11648,11670>>, <<11680,11686>>,
    <<11688,11694>>, <<11696,11702>>, <<11704,11710>>, <<11712,11718>>, <<11720,11726>>,
    <<11728,11734>>, <<11736,11742>>, <<11823,11823>>, <<12293,12295>>, <<12321,12329>>,
    <<12337,12341>>, <<12344,12348>>, <<12353,12438>>, <<12445,12447>>, <<12449,12538>>,
    <<12540,12543>>, <<12549,12591>>, <<12593,12686>>, <<12690,12693>>, <<12704,12735>>,
    <<12784,12799>>, <<12832,12841>>, <<12872,12879>>, <<12881,12895>>, <<12928,12937>>,
    <<12977,12991>>, <<13312,19903>>, <<19968,42124>>, <<42192,42237>>, <<42240,42508>>,
    <<42512,42539>>, <<42560,42606>>, <<42623,42653>>, <<42656,42735>>, <<42775,42783>>,
    <<42786,42888>>, <<42891,42954>>, <<42960,42961>>, <<42963,42963>>, <<42965,42969>>,
    <<42994,43009>>, <<43011,43013>>, <<43015,43018>>, <<43020,43042>>, <<43056,43061>>,
    <<43072,43123>>, <<43138,43187>>, <<43216,43225>>, <<43250,43255>>, <<43259,43259>>,
    <<43261,43262>>, <<43264,43301>>, <<43312,43334>>, <<43360,43388>>, <<43396,43442>>,
    <<43471,43481>>, <<43488,43492>>, <<43494,43518>>, <<43520,43560>>, <<43584,43586>>,
    <<43588,43595>>, <<43600,43609>>, <<43616,43638>>, <<43642,43642>>, <<43646,43695>>,
    <<43697,43697>>, <<43701,43702>>, <<43705,43709>>, <<43712,43712>>, <<43714,43714>>,
    <<43739,43741>>, <<43744,43754>>, <<43762,43764>>, <<43777,43782>>, <<43785,43790>>,
    <<43793,43798>>, <<43808,43814>>, <<43816,43822>>, <<43824,43866>>, <<43868,43881>>,
    <<43888,44002>>, <<44016,44025>>, <<44032,55203>>, <<55216,55238>>, <<55243,55291>>,
    <<63744,64109>>, <<64112,64217>>, <<64256,64262>>, <<64275,64279>>, <<64285,64285>>,
    <<64287,64296>>, <<64298,64310>>, <<64312,64316>>, <<64318,64318>>, <<64320,64321>>,
    <<64323,64324>>, <<64326,64433>>, <<64467,64829>>, <<64848,64911>>, <<64914,64967>>,
    <<65008,65019>>, <<65136,65140>>, <<65142,65276>>, <<65296,65305>>, <<65313,65338>>,
    <<65345,65370>>, <<65382,65470>>, <<65474,65479>>, <<65482,65487>>, <<65490,65495>>,
    <<65498,65500>>, <<65536,65547>>, <<65549,65574>>, <<65576,65594>>, <<65596,65597>>,
    <<65599,65613>>, <<65616,65629>>, <<65664,65786>>, <<65799,65843>>, <<65856,65912>>,
    <<65930,65931>>, <<66176,66204>>, <<66208,66256>>, <<66273,66299>>, <<66304,66339>>,
    <<66349,66378>>, <<66384,66421>>, <<66432,66461>>, <<66464,66499>>, <<66504,66511>>,
    <<66513,66517>>, <<66560,66717>>, <<66720,66729>>, <<66736,66771>>, <<66776,66811>>,
    <<66816,66855>>, <<66864,66915>>, <<66928,66938>>, <<66940,66954>>, <<66956,66962>>,
    <<66964,66965>>, <<66967,66977>>, <<66979,66993>>, <<66995,67001>>, <<67003,67004>>,
    <<67072,67382>>, <<67392,67413>>, <<67424,67431>>, <<67456,67461>>, <<67463,67504>>,
    <<67506,67514>>, <<67584,67589>>, <<67592,67592>>, <<67594,67637>>, <<67639,67640>>,
    <<67644,67644>>, <<67647,67669>>, <<67672,67702>>, <<67705,67742>>, <<67751,67759>>,
    <<67808,67826>>, <<67828,67829>>, <<67835,67867>>, <<67872,67897>>, <<67968,68023>>,
    <<68028,68047>>, <<68050,68096>>, <<68112,68115>>, <<68117,68119>>, <<68121,68149>>,
    <<68160,68168>>, <<68192,68222>>, <<68224,68255>>, <<68288,68295>>, <<68297,68324>>,
    <<68331,68335>>, <<68352,68405>>, <<68416,68437>>, <<68440,68466>>, <<68472,68497>>,
    <<68521,68527>>, <<68608,68680>>, <<68736,68786>>, <<68800,68850>>, <<68858,68899>>,
    <<68912,68921>>, <<69216,69246>>, <<69248,69289>>, <<69296,69297>>, <<69376,69415>>,
    <<69424,69445>>, <<69457,69460>>, <<69488,69505>>, <<69552,69579>>, <<69600,69622>>,
    <<69635,69687>>, <<69714,69743>>, <<69745,69746>>, <<69749,69749>>, <<69763,69807>>,
    <<69840,69864>>, <<69872,69881>>, <<69891,69926>>, <<69942,69951>>, <<69956,69956>>,
    <<69959,69959>>, <<69968,70002>>, <<70006,70006>>, <<70019,70066>>, <<70081,70084>>,
    <<70096,70106>>, <<70108,70108>>, <<70113,70132>>, <<70144,70161>>, <<70163,70187>>,
    <<70272,70278>>, <<70280,70280>>, <<70282,70285>>, <<70287,70301>>, <<70303,70312>>,
    <<70320,70366>>, <<70384,70393>>, <<70405,70412>>, <<70415,70416>>, <<70419,70440>>,
    <<70442,70448>>, <<70450,70451>>, <<70453,70457>>, <<70461,70461>>, <<70480,70480>>,
    <<70493,70497>>, <<70656,70708>>, <<70727,70730>>, <<70736,70745>>, <<70751,70753>>,
    <<70784,70831>>, <<70852,70853>>, <<70855,70855>>, <<70864,70873>>, <<71040,71086>>,
    <<71128,71131>>, <<71168,71215>>, <<71236,71236>>, <<71248,71257>>, <<71296,71338>>,
    <<71352,71352>>, <<71360,71369>>, <<71424,71450>>, <<71472,71483>>, <<71488,71494>>,
    <<71680,71723>>, <<71840,71922>>, <<71935,71942>>, <<71945,71945>>, <<71948,71955>>,
    <<71957,71958>>, <<71960,71983>>, <<71999,71999>>, <<72001,72001>>, <<72016,72025>>,
    <<72096,72103>>, <<72106,72144>>, <<72161,72161>>, <<72163,72163>>, <<72192,72192>>,
    <<72203,72242>>, <<72250,72250>>, <<72272,72272>>, <<72284,72329>>, <<72349,72349>>,
    <<72368,72440>>, <<72704,72712>>, <<72714,72750>>, <<72768,72768>>, <<72784,72812>>,
    <<72818,72847>>, <<72960,72966>>, <<72968,72969>>, <<72971,73008>>, <<73030,73030>>,
    <<73040,73049>>, <<73056,73061>>, <<73063,73064>>, <<73066,73097>>, <<73112,73112>>,
    <<73120,73129>>, <<73440,73458>>, <<73648,73648>>, <<73664,73684>>, <<73728,74649>>,
    <<74752,74862>>, <<74880,75075>>, <<77712,77808>>, <<77824,78894>>, <<82944,83526>>,
    <<92160,92728>>, <<92736,92766>>, <<92768,92777>>, <<92784,92862>>, <<92864,92873>>,
    <<92880,92909>>, <<92928,92975>>, <<92992,92995>>, <<93008,93017>>, <<93019,93025>>,
    <<93027,93047>>, <<93053,93071>>, <<93760,93846>>, <<93952,94026>>, <<94032,94032>>,
    <<94099,94111>>, <<94176,94177>>, <<94179,94179>>, <<94208,100343>>, <<100352,101589>>,
    <<101632,101640>>, <<110576,110579>>, <<110581,110587>>, <<110589,110590>>,
    <<110592,110882>>, <<110928,110930>>, <<110948,110951>>, <<110960,111355>>,
    <<113664,113770>>, <<113776,113788>>, <<113792,113800>>, <<113808,113817>>,
    <<119520,119539>>, <<119648,119672>>, <<119808,119892>>, <<119894,119964>>,
    <<119966,119967>>, <<119970,119970>>, <<119973,119974>>, <<119977,119980>>,
    <<119982,119993>>, <<119995,119995>>, <<119997,120003>>, <<120005,120069>>,
    <<120071,120074>>, <<120077,120084>>, <<120086,120092>>, <<120094,120121>>,
    <<120123,120126>>, <<120128,120132>>, <<120134,120134>>, <<120138,120144>>,
    <<120146,120485>>, <<120488,120512>>, <<120514,120538>>, <<120540,120570>>,
    <<120572,120596>>, <<120598,120628>>, <<120630,120654>>, <<120656,120686>>,
    <<120688,120712>>, <<120714,120744>>, <<120746,120770>>, <<120772,120779>>,
    <<120782,120831>>, <<122624,122654>>, <<123136,123180>>, <<123191,123197>>,
    <<123200,123209>>, <<123214,123214>>, <<123536,123565>>, <<123584,123627>>,
    <<123632,123641>>, <<124896,124902>>, <<124904,124907>>, <<124909,124910>>,
    <<124912,124926>>, <<124928,125124>>, <<125127,125135>>, <<125184,125251>>,
    <<125259,125259>>, <<125264,125273>>, <<126065,126123>>, <<126125,126127>>,
    <<126129,126132>>, <<126209,126253>>, <<126255,126269>>, <<126464,126467>>,
    <<126469,126495>>, <<126497,126498>>, <<126500,126500>>, <<126503,126503>>,
    <<126505,126514>>, <<126516,126519>>, <<126521,126521>>, <<126523,126523>>,
    <<126530,126530>>, <<126535,126535>>, <<126537,126537>>, <<126539,126539>>,
    <<126541,126543>>, <<126545,126546>>, <<126548,126548>>, <<126551,126551>>,
    <<126553,126553>>, <<126555,126555>>, <<126557,126557>>, <<126559,126559>>,
    <<126561,126562>>, <<126564,126564>>, <<126567,126570>>, <<126572,126578>>,
    <<126580,126583>>, <<126585,126588>>, <<126590,126590>>, <<126592,126601>>,
    <<126603,126619>>, <<126625,126627>>, <<126629,126633>>, <<126635,126651>>,
    <<127232,127244>>, <<130032,130041>>, <<131072,173791>>, <<173824,177976>>,
    <<177984,178205>>, <<178208,183969>>, <<183984,191456>>, <<194560,195101>>,
    <<196608,201546>>}

\* str.upper: each character it changes with the text it becomes
UpperTable == {
    <<97, <<65>>>>, <<98, <<66>>>>, <<99, <<67>>>>, <<100, <<68>>>>, <<101, <<69>>>>,
    <<102, <<70>>>>, <<103, <<71>>>>, <<104, <<72>>>>, <<105, <<73>>>>, <<106, <<74>>>>,
    <<107, <<75>>>>, <<108, <<76>>>>, <<109, <<77>>>>, <<110, <<78>>>>, <<111, <<79>>>>,
    <<112, <<80>>>>, <<113, <<81>>>>, <<114, <<82>>>>, <<115, <<83>>>>, <<116, <<84>>>>,
    <<117, <<85>>>>, <<118, <<86>>>>, <<119, <<87>>>>, <<120, <<88>>>>, <<121, <<89>>>>,
    <<122, <<90>>>>, <<181, <<924>>>>, <<223, <<83,83>>>>, <<224, <<192>>>>, <<225, <<193>>>>,
    <<226, <<194>>>>, <<227, <<195>>>>, <<228, <<196>>>>, <<229, <<197>>>>, <<230, <<198>>>>,
    <<231, <<199>>>>, <<232, <<200>>>>, <<233, <<201>>>>, <<234, <<202>>>>, <<235, <<203>>>>,
    <<236, <<204>>>>, <<237, <<205>>>>, <<238, <<206>>>>, <<239, <<207>>>>, <<240, <<208>>>>,
    <<241, <<209>>>>, <<242, <<210>>>>, <<243, <<211>>>>, <<244, <<212>>>>, <<245, <<213>>>>,
    <<246, <<214>>>>, <<248, <<216>>>>, <<249, <<217>>>>, <<250, <<218>>>>, <<251, <<219>>>>,
    <<252, <<220>>>>, <<253, <<221>>>>, <<254, <<222>>>>, <<255, <<376>>>>, <<257, <<256>>>>,
    <<259, <<258>>>>, <<261, <<260>>>>, <<263, <<262>>>>, <<265, <<264>>>>, <<267, <<266>>>>,
    <<269, <<268>>>>, <<271, <<270>>>>, <<273, <<272>>>>, <<275, <<274>>>>, <<277, <<276>>>>,
    <<279, <<278>>>>, <<281, <<280>>>>, <<283, <<282>>>>, <<285, <<284>>>>, <<287, <<286>>>>,
    <<289, <<288>>>>, <<291, <<290>>>>, <<293, <<292>>>>, <<295, <<294>>>>, <<297, <<296>>>>,
    <<299, <<298>>>>, <<301, <<300>>>>, <<303, <<302>>>>, <<305, <<73>>>>, <<307, <<306>>>>,
    <<309, <<308>>>>, <<311, <<310>>>>, <<314, <<313>>>>, <<316, <<315>>>>, <<318, <<317>>>>,
    <<320, <<319>>>>, <<322, <<321>>>>, <<324, <<323>>>>, <<326, <<325>>>>, <<328, <<327>>>>,
    <<329, <<700,78>>>>, <<331, <<330>>>>, <<333, <<332>>>>, <<335, <<334>>>>,
    <<337, <<336>>>>, <<339, <<338>>>>, <<341, <<340>>>>, <<343, <<342>>>>, <<345, <<344>>>>,
    <<347, <<346>>>>, <<349, <<348>>>>, <<351, <<350>>>>, <<353, <<352>>>>, <<355, <<354>>>>,
    <<357, <<356>>>>, <<359, <<358>>>>, <<361, <<360>>>>, <<363, <<362>>>>, <<365, <<364>>>>,
    <<367, <<366>>>>, <<369, <<368>>>>, <<371, <<370>>>>, <<373, <<372>>>>, <<375, <<374>>>>,
    <<378, <<377>>>>, <<380, <<379>>>>, <<382, <<381>>>>, <<383, <<83>>>>, <<384, <<579>>>>,
    <<387, <<386>>>>, <<389, <<388>>>>, <<392, <<391>>>>, <<396, <<395>>>>, <<402, <<401>>>>,
    <<405, <<502>>>>, <<409, <<408>>>>, <<410, <<573>>>>, <<414, <<544>>>>, <<417, <<416>>>>,
    <<419, <<418>>>>, <<421, <<420>>>>, <<424, <<423>>>>, <<429, <<428>>>>, <<432, <<431>>>>,
    <<436, <<435>>>>, <<438, <<437>>>>, <<441, <<440>>>>, <<445, <<444>>>>, <<447, <<503>>>>,
    <<453, <<452>>>>, <<454, <<452>>>>, <<456, <<455>>>>, <<457, <<455>>>>, <<459, <<458>>>>,
    <<460, <<458>>>>, <<462, <<461>>>>, <<464, <<463>>>>, <<466, <<465>>>>, <<468, <<467>>>>,
    <<470, <<469>>>>, <<472, <<471>>>>, <<474, <<473>>>>, <<476, <<475>>>>, <<477, <<398>>>>,
    <<479, <<478>>>>, <<481, <<480>>>>, <<483, <<482>>>>, <<485, <<484>>>>, <<487, <<486>>>>,
    <<489, <<488>>>>, <<491, <<490>>>>, <<493, <<492>>>>, <<495, <<494>>>>,
    <<496, <<74,780>>>>, <<498, <<497>>>>, <<499, <<497>>>>, <<501, <<500>>>>,
    <<505, <<504>>>>, <<507, <<506>>>>, <<509, <<508>>>>, <<511, <<510>>>>, <<513, <<512>>>>,
    <<515, <<514>>>>, <<517, <<516>>>>, <<519, <<518>>>>, <<521, <<520>>>>, <<523, <<522>>>>,
    <<525, <<524>>>>, <<527, <<526>>>>, <<529, <<528>>>>, <<531, <<530>>>>, <<533, <<532>>>>,
    <<535, <<534>>>>, <<537, <<536>>>>, <<539, <<538>>>>, <<541, <<540>>>>, <<543, <<542>>>>,
    <<547, <<546>>>>, <<549, <<548>>>>, <<551, <<550>>>>, <<553, <<552>>>>, <<555, <<554>>>>,
    <<557, <<556>>>>, <<559, <<558>>>>, <<561, <<560>>>>, <<563, <<562>>>>, <<572, <<571>>>>,
    <<575, <<11390>>>>, <<576, <<11391>>>>, <<578, <<577>>>>, <<583, <<582>>>>,
    <<585, <<584>>>>, <<587, <<586>>>>, <<589, <<588>>>>, <<591, <<590>>>>, <<592, <<11375>>>>,
    <<593, <<11373>>>>, <<594, <<11376>>>>, <<595, <<385>>>>, <<596, <<390>>>>,
    <<598, <<393>>>>, <<599, <<394>>>>, <<601, <<399>>>>, <<603, <<400>>>>, <<604, <<42923>>>>,
    <<608, <<403>>>>, <<609, <<42924>>>>, <<611, <<404>>>>, <<613, <<42893>>>>,
    <<614, <<42922>>>>, <<616, <<407>>>>, <<617, <<406>>>>, <<618, <<42926>>>>,
    <<619, <<11362>>>>, <<620, <<42925>>>>, <<623, <<412>>>>, <<625, <<11374>>>>,
    <<626, <<413>>>>, <<629, <<415>>>>, <<637, <<11364>>>>, <<640, <<422>>>>,
    <<642, <<42949>>>>, <<643, <<425>>>>, <<647, <<42929>>>>, <<648, <<430>>>>,
    <<649, <<580>>>>, <<650, <<433>>>>, <<651, <<434>>>>, <<652, <<581>>>>, <<658, <<439>>>>,
    <<669, <<42930>>>>, <<670, <<42928>>>>, <<837, <<921>>>>, <<881, <<880>>>>,
    <<883, <<882>>>>, <<887, <<886>>>>, <<891, <<1021>>>>, <<892, <<1022>>>>,
    <<893, <<1023>>>>, <<912, <<921,776,769>>>>, <<940, <<902>>>>, <<941, <<904>>>>,
    <<942, <<905>>>>, <<943, <<906>>>>, <<944, <<933,776,769>>>>, <<945, <<913>>>>,
    <<946, <<914>>>>, <<947, <<915>>>>, <<948, <<916>>>>, <<949, <<917>>>>, <<950, <<918>>>>,
    <<951, <<919>>>>, <<952, <<920>>>>, <<953, <<921>>>>, <<954, <<922>>>>, <<955, <<923>>>>,
    <<956, <<924>>>>, <<957, <<925>>>>, <<958, <<926>>>>, <<959, <<927>>>>, <<960, <<928>>>>,
    <<961, <<929>>>>, <<962, <<931>>>>, <<963, <<931>>>>, <<964, <<932>>>>, <<965, <<933>>>>,
    <<966, <<934>>>>, <<967, <<935>>>>, <<968, <<936>>>>, <<969, <<937>>>>, <<970, <<938>>>>,
    <<971, <<939>>>>, <<972, <<908>>>>, <<973, <<910>>>>, <<974, <<911>>>>, <<976, <<914>>>>,
    <<977, <<920>>>>, <<981, <<934>>>>, <<982, <<928>>>>, <<983, <<975>>>>, <<985, <<984>>>>,
    <<987, <<986>>>>, <<989, <<988>>>>, <<991, <<990>>>>, <<993, <<992>>>>, <<995, <<994>>>>,
    <<997, <<996>>>>, <<999, <<998>>>>, <<1001, <<1000>>>>, <<1003, <<1002>>>>,
    <<1005, <<1004>>>>, <<1007, <<1006>>>>, <<1008, <<922>>>>, <<1009, <<929>>>>,
    <<1010, <<1017>>>>, <<1011, <<895>>>>, <<1013, <<917>>>>, <<1016, <<1015>>>>,
    <<1019, <<1018>>>>, <<1072, <<1040>>>>, <<1073, <<1041>>>>, <<1074, <<1042>>>>,
    <<1075, <<1043>>>>, <<1076, <<1044>>>>, <<1077, <<1045>>>>, <<1078, <<1046>>>>,
    <<1079, <<1047>>>>, <<1080, <<1048>>>>, <<1081, <<1049>>>>, <<1082, <<1050>>>>,
    <<1083, <<1051>>>>, <<1084, <<1052>>>>, <<1085, <<1053>>>>, <<1086, <<1054>>>>,
    <<1087, <<1055>>>>, <<1088, <<1056>>>>, <<1089, <<1057>>>>, <<1090, <<1058>>>>,
    <<1091, <<1059>>>>, <<1092, <<1060>>>>, <<1093, <<1061>>>>, <<1094, <<1062>>>>,
    <<1095, <<1063>>>>, <<1096, <<1064>>>>, <<1097, <<1065>>>>, <<1098, <<1066>>>>,
    <<1099, <<1067>>>>, <<1100, <<1068>>>>, <<1101, <<1069>>>>, <<1102, <<1070>>>>,
    <<1103, <<1071>>>>, <<1104, <<1024>>>>, <<1105, <<1025>>>>, <<1106, <<1026>>>>,
    <<1107, <<1027>>>>, <<1108, <<1028>>>>, <<1109, <<1029>>>>, <<1110, <<1030>>>>,
    <<1111, <<1031>>>>, <<1112, <<1032>>>>, <<1113, <<1033>>>>, <<1114, <<1034>>>>,
    <<1115, <<1035>>>>, <<1116, <<1036>>>>, <<1117, <<1037>>>>, <<1118, <<1038>>>>,
    <<1119, <<1039>>>>, <<1121, <<1120>>>>, <<1123, <<1122>>>>, <<1125, <<1124>>>>,
    <<1127, <<1126>>>>, <<1129, <<1128>>>>, <<1131, <<1130>>>>, <<1133, <<1132>>>>,
    <<1135, <<1134>>>>, <<1137, <<1136>>>>, <<1139, <<1138>>>>, <<1141, <<1140>>>>,
    <<1143, <<1142>>>>, <<1145, <<1144>>>>, <<1147, <<1146>>>>, <<1149, <<1148>>>>,
    <<1151, <<1150>>>>, <<1153, <<1152>>>>, <<1163, <<1162>>>>, <<1165, <<1164>>>>,
    <<1167, <<1166>>>>, <<1169, <<1168>>>>, <<1171, <<1170>>>>, <<1173, <<1172>>>>,
    <<1175, <<1174>>>>, <<1177, <<1176>>>>, <<1179, <<1178>>>>, <<1181, <<1180>>>>,
    <<1183, <<1182>>>>, <<1185, <<1184>>>>, <<1187, <<1186>>>>, <<1189, <<1188>>>>,
    <<1191, <<1190>>>>, <<1193, <<1192>>>>, <<1195, <<1194>>>>, <<1197, <<1196>>>>,
    <<1199, <<1198>>>>, <<1201, <<1200>>>>, <<1203, <<1202>>>>, <<1205, <<1204>>>>,
    <<1207, <<1206>>>>, <<1209, <<1208>>>>, <<1211, <<1210>>>>, <<1213, <<1212>>>>,
    <<1215, <<1214>>>>, <<1218, <<1217>>>>, <<1220, <<1219>>>>, <<1222, <<1221>>>>,
    <<1224, <<1223>>>>, <<1226, <<1225>>>>, <<1228, <<1227>>>>, <<1230, <<1229>>>>,
    <<1231, <<1216>>>>, <<1233, <<1232>>>>, <<1235, <<1234>>>>, <<1237, <<1236>>>>,
    <<1239, <<1238>>>>, <<1241, <<1240>>>>, <<1243, <<1242>>>>, <<1245, <<1244>>>>,
    <<1247, <<1246>>>>, <<1249, <<1248>>>>, <<1251, <<1250>>>>, <<1253, <<1252>>>>,
    <<1255, <<1254>>>>, <<1257, <<1256>>>>, <<1259, <<1258>>>>, <<1261, <<1260>>>>,
    <<1263, <<1262>>>>, <<1265, <<1264>>>>, <<1267, <<1266>>>>, <<1269, <<1268>>>>,
    <<1271, <<1270>>>>, <<1273, <<1272>>>>, <<1275, <<1274>>>>, <<1277, <<1276>>>>,
    <<1279, <<1278>>>>, <<1281, <<1280>>>>, <<1283, <<1282>>>>, <<1285, <<1284>>>>,
    <<1287, <<1286>>>>, <<1289, <<1288>>>>, <<1291, <<1290>>>>, <<1293, <<1292>>>>,
    <<1295, <<1294>>>>, <<1297, <<1296>>>>, <<1299, <<1298>>>>, <<1301, <<1300>>>>,
    <<1303, <<1302>>>>, <<1305, <<1304>>>>, <<1307, <<1306>>>>, <<1309, <<1308>>>>,
    <<1311, <<1310>>>>, <<1313, <<1312>>>>, <<1315, <<1314>>>>, <<1317, <<1316>>>>,
    <<1319, <<1318>>>>, <<1321, <<1320>>>>, <<1323, <<1322>>>>, <<1325, <<1324>>>>,
    <<1327, <<1326>>>>, <<1377, <<1329>>>>, <<1378, <<1330>>>>, <<1379, <<1331>>>>,
    <<1380, <<1332>>>>, <<1381, <<1333>>>>, <<1382, <<1334>>>>, <<1383, <<1335>>>>,
    <<1384, <<1336>>>>, <<1385, <<1337>>>>, <<1386, <<1338>>>>, <<1387, <<1339>>>>,
    <<1388, <<1340>>>>, <<1389, <<1341>>>>, <<1390, <<1342>>>>, <<1391, <<1343>>>>,
    <<1392, <<1344>>>>, <<1393, <<1345>>>>, <<1394, <<1346>>>>, <<1395, <<1347>>>>,
    <<1396, <<1348>>>>, <<1397, <<1349>>>>, <<1398, <<1350>>>>, <<1399, <<1351>>>>,
    <<1400, <<1352>>>>, <<1401, <<1353>>>>, <<1402, <<1354>>>>, <<1403, <<1355>>>>,
    <<1404, <<1356>>>>, <<1405, <<1357>>>>, <<1406, <<1358>>>>, <<1407, <<1359>>>>,
    <<1408, <<1360>>>>, <<1409, <<1361>>>>, <<1410, <<1362>>>>, <<1411, <<1363>>>>,
    <<1412, <<1364>>>>, <<1413, <<1365>>>>, <<1414, <<1366>>>>, <<1415, <<1333,1362>>>>,
    <<4304, <<7312>>>>, <<4305, <<7313>>>>, <<4306, <<7314>>>>, <<4307, <<7315>>>>,
    <<4308, <<7316>>>>, <<4309, <<7317>>>>, <<4310, <<7318>>>>, <<4311, <<7319>>>>,
    <<4312, <<7320>>>>, <<4313, <<7321>>>>, <<4314, <<7322>>>>, <<4315, <<7323>>>>,
    <<4316, <<7324>>>>, <<4317, <<7325>>>>, <<4318, <<7326>>>>, <<4319, <<7327>>>>,
    <<4320, <<7328>>>>, <<4321, <<7329>>>>, <<4322, <<7330>>>>, <<4323, <<7331>>>>,
    <<4324, <<7332>>>>, <<4325, <<7333>>>>, <<4326, <<7334>>>>, <<4327, <<7335>>>>,
    <<4328, <<7336>>>>, <<4329, <<7337>>>>, <<4330, <<7338>>>>, <<4331, <<7339>>>>,
    <<4332, <<7340>>>>, <<4333, <<7341>>>>, <<4334, <<7342>>>>, <<4335, <<7343>>>>,
    <<4336, <<7344>>>>, <<4337, <<7345>>>>, <<4338, <<7346>>>>, <<4339, <<7347>>>>,
    <<4340, <<7348>>>>, <<4341, <<7349>>>>, <<4342, <<7350>>>>, <<4343, <<7351>>>>,
    <<4344, <<7352>>>>, <<4345, <<7353>>>>, <<4346, <<7354>>>>, <<4349, <<7357>>>>,
    <<4350, <<7358>>>>, <<4351, <<7359>>>>, <<5112, <<5104>>>>, <<5113, <<5105>>>>,
    <<5114, <<5106>>>>, <<5115, <<5107>>>>, <<5116, <<5108>>>>, <<5117, <<5109>>>>,
    <<7296, <<1042>>>>, <<7297, <<1044>>>>, <<7298, <<1054>>>>, <<7299, <<1057>>>>,
    <<7300, <<1058>>>>, <<7301, <<1058>>>>, <<7302, <<1066>>>>, <<7303, <<1122>>>>,
    <<7304, <<42570>>>>, <<7545, <<42877>>>>, <<7549, <<11363>>>>, <<7566, <<42950>>>>,
    <<7681, <<7680>>>>, <<7683, <<7682>>>>, <<7685, <<7684>>>>, <<7687, <<7686>>>>,
    <<7689, <<7688>>>>, <<7691, <<7690>>>>, <<7693, <<7692>>>>, <<7695, <<7694>>>>,
    <<7697, <<7696>>>>, <<7699, <<7698>>>>, <<7701, <<7700>>>>, <<7703, <<7702>>>>,
    <<7705, <<7704>>>>, <<7707, <<7706>>>>, <<7709, <<7708>>>>, <<7711, <<7710>>>>,
    <<7713, <<7712>>>>, <<7715, <<7714>>>>, <<7717, <<7716>>>>, <<7719, <<7718>>>>,
    <<7721, <<7720>>>>, <<7723, <<7722>>>>, <<7725, <<7724>>>>, <<7727, <<7726>>>>,
    <<7729, <<7728>>>>, <<7731, <<7730>>>>, <<7733, <<7732>>>>, <<7735, <<7734>>>>,
    <<7737, <<7736>>>>, <<7739, <<7738>>>>, <<7741, <<7740>>>>, <<7743, <<7742>>>>,
    <<7745, <<7744>>>>, <<7747, <<7746>>>>, <<7749, <<7748>>>>, <<7751, <<7750>>>>,
    <<7753, <<7752>>>>, <<7755, <<7754>>>>, <<7757, <<7756>>>>, <<7759, <<7758>>>>,
    <<7761, <<7760>>>>, <<7763, <<7762>>>>, <<7765, <<7764>>>>, <<7767, <<7766>>>>,
    <<7769, <<7768>>>>, <<7771, <<7770>>>>, <<7773, <<7772>>>>, <<7775, <<7774>>>>,
    <<7777, <<7776>>>>, <<7779, <<7778>>>>, <<7781, <<7780>>>>, <<7783, <<7782>>>>,
    <<7785, <<7784>>>>, <<7787, <<7786>>>>, <<7789, <<7788>>>>, <<7791, <<7790>>>>,
    <<7793, <<7792>>>>, <<7795, <<7794>>>>, <<7797, <<7796>>>>, <<7799, <<7798>>>>,
    <<7801, <<7800>>>>, <<7803, <<7802>>>>, <<7805, <<7804>>>>, <<7807, <<7806>>>>,
    <<7809, <<7808>>>>, <<7811, <<7810>>>>, <<7813, <<7812>>>>, <<7815, <<7814>>>>,
    <<7817, <<7816>>>>, <<7819, <<7818>>>>, <<7821, <<7820>>>>, <<7823, <<7822>>>>,
    <<7825, <<7824>>>>, <<7827, <<7826>>>>, <<7829, <<7828>>>>, <<7830, <<72,817>>>>,
    <<7831, <<84,776>>>>, <<7832, <<87,778>>>>, <<7833, <<89,778>>>>, <<7834, <<65,702>>>>,
    <<7835, <<7776>>>>, <<7841, <<7840>>>>, <<7843, <<7842>>>>, <<7845, <<7844>>>>,
    <<7847, <<7846>>>>, <<7849, <<7848>>>>, <<7851, <<7850>>>>, <<7853, <<7852>>>>,
    <<7855, <<7854>>>>, <<7857, <<7856>>>>, <<7859, <<7858>>>>, <<7861, <<7860>>>>,
    <<7863, <<7862>>>>, <<7865, <<7864>>>>, <<7867, <<7866>>>>, <<7869, <<7868>>>>,
    <<7871, <<7870>>>>, <<7873, <<7872>>>>, <<7875, <<7874>>>>, <<7877, <<7876>>>>,
    <<7879, <<7878>>>>, <<7881, <<7880>>>>, <<7883, <<7882>>>>, <<7885, <<7884>>>>,
    <<7887, <<7886>>>>, <<7889, <<7888>>>>, <<7891, <<7890>>>>, <<7893, <<7892>>>>,
    <<7895, <<7894>>>>, <<7897, <<7896>>>>, <<7899, <<7898>>>>, <<7901, <<7900>>>>,
    <<7903, <<7902>>>>, <<7905, <<7904>>>>, <<7907, <<7906>>>>, <<7909, <<7908>>>>,
    <<7911, <<7910>>>>, <<7913, <<7912>>>>, <<7915, <<7914>>>>, <<7917, <<7916>>>>,
    <<7919, <<7918>>>>, <<7921, <<7920>>>>, <<7923, <<7922>>>>, <<7925, <<7924>>>>,
    <<7927, <<7926>>>>, <<7929, <<7928>>>>, <<7931, <<7930>>>>, <<7933, <<7932>>>>,
    <<7935, <<7934>>>>, <<7936, <<7944>>>>, <<7937, <<7945>>>>, <<7938, <<7946>>>>,
    <<7939, <<7947>>>>, <<7940, <<7948>>>>, <<7941, <<7949>>>>, <<7942, <<7950>>>>,
    <<7943, <<7951>>>>, <<7952, <<7960>>>>, <<7953, <<7961>>>>, <<7954, <<7962>>>>,
    <<7955, <<7963>>>>, <<7956, <<7964>>>>, <<7957, <<7965>>>>, <<7968, <<7976>>>>,
    <<7969, <<7977>>>>, <<7970, <<7978>>>>, <<7971, <<7979>>>>, <<7972, <<7980>>>>,
    <<7973, <<7981>>>>, <<7974, <<7982>>>>, <<7975, <<7983>>>>, <<7984, <<7992>>>>,
    <<7985, <<7993>>>>, <<7986, <<7994>>>>, <<7987, <<7995>>>>, <<7988, <<7996>>>>,
    <<7989, <<7997>>>>, <<7990, <<7998>>>>, <<7991, <<7999>>>>, <<8000, <<8008>>>>,
    <<8001, <<8009>>>>, <<8002, <<8010>>>>, <<8003, <<8011>>>>, <<8004, <<8012>>>>,
    <<8005, <<8013>>>>, <<8016, <<933,787>>>>, <<8017, <<8025>>>>, <<8018, <<933,787,768>>>>,
    <<8019, <<8027>>>>, <<8020, <<933,787,769>>>>, <<8021, <<8029>>>>,
    <<8022, <<933,787,834>>>>, <<8023, <<8031>>>>, <<8032, <<8040>>>>, <<8033, <<8041>>>>,
    <<8034, <<8042>>>>, <<8035, <<8043>>>>, <<8036, <<8044>>>>, <<8037, <<8045>>>>,
    <<8038, <<8046>>>>, <<8039, <<8047>>>>, <<8048, <<8122>>>>, <<8049, <<8123>>>>,
    <<8050, <<8136>>>>, <<8051, <<8137>>>>, <<8052, <<8138>>>>, <<8053, <<8139>>>>,
    <<8054, <<8154>>>>, <<8055, <<8155>>>>, <<8056, <<8184>>>>, <<8057, <<8185>>>>,
    <<8058, <<8170>>>>, <<8059, <<8171>>>>, <<8060, <<8186>>>>, <<8061, <<8187>>>>,
    <<8064, <<7944,921>>>>, <<8065, <<7945,921>>>>, <<8066, <<7946,921>>>>,
    <<8067, <<7947,921>>>>, <<8068, <<7948,921>>>>, <<8069, <<7949,921>>>>,
    <<8070, <<7950,921>>>>, <<8071, <<7951,921>>>>, <<8072, <<7944,921>>>>,
    <<8073, <<7945,921>>>>, <<8074, <<7946,921>>>>, <<8075, <<7947,921>>>>,
    <<8076, <<7948,921>>>>, <<8077, <<7949,921>>>>, <<8078, <<7950,921>>>>,
    <<8079, <<7951,921>>>>, <<8080, <<7976,921>>>>, <<8081, <<7977,921>>>>,
    <<8082, <<7978,921>>>>, <<8083, <<7979,921>>>>, <<8084, <<7980,921>>>>,
    <<8085, <<7981,921>>>>, <<8086, <<7982,921>>>>, <<8087, <<7983,921>>>>,
    <<8088, <<7976,921>>>>, <<8089, <<7977,921>>>>, <<8090, <<7978,921>>>>,
    <<8091, <<7979,921>>>>, <<8092, <<7980,921>>>>, <<8093, <<7981,921>>>>,
    <<8094, <<7982,921>>>>, <<8095, <<7983,921>>>>, <<8096, <<8040,921>>>>,
    <<8097, <<8041,921>>>>, <<8098, <<8042,921>>>>, <<8099, <<8043,921>>>>,
    <<8100, <<8044,921>>>>, <<8101, <<8045,921>>>>, <<8102, <<8046,921>>>>,
    <<8103, <<8047,921>>>>, <<8104, <<8040,921>>>>, <<8105, <<8041,921>>>>,
    <<8106, <<8042,921>>>>, <<8107, <<8043,921>>>>, <<8108, <<8044,921>>>>,
    <<8109, <<8045,921>>>>, <<8110, <<8046,921>>>>, <<8111, <<8047,921>>>>, <<8112, <<8120>>>>,
    <<8113, <<8121>>>>, <<8114, <<8122,921>>>>, <<8115, <<913,921>>>>, <<8116, <<902,921>>>>,
    <<8118, <<913,834>>>>, <<8119, <<913,834,921>>>>, <<8124, <<913,921>>>>, <<8126, <<921>>>>,
    <<8130, <<8138,921>>>>, <<8131, <<919,921>>>>, <<8132, <<905,921>>>>,
    <<8134, <<919,834>>>>, <<8135, <<919,834,921>>>>, <<8140, <<919,921>>>>,
    <<8144, <<8152>>>>, <<8145, <<8153>>>>, <<8146, <<921,776,768>>>>,
    <<8147, <<921,776,769>>>>, <<8150, <<921,834>>>>, <<8151, <<921,776,834>>>>,
    <<8160, <<8168>>>>, <<8161, <<8169>>>>, <<8162, <<933,776,768>>>>,
    <<8163, <<933,776,769>>>>, <<8164, <<929,787>>>>, <<8165, <<8172>>>>,
    <<8166, <<933,834>>>>, <<8167, <<933,776,834>>>>, <<8178, <<8186,921>>>>,
    <<8179, <<937,921>>>>, <<8180, <<911,921>>>>, <<8182, <<937,834>>>>,
    <<8183, <<937,834,921>>>>, <<8188, <<937,921>>>>, <<8526, <<8498>>>>, <<8560, <<8544>>>>,
    <<8561, <<8545>>>>, <<8562, <<8546>>>>, <<8563, <<8547>>>>, <<8564, <<8548>>>>,
    <<8565, <<8549>>>>, <<8566, <<8550>>>>, <<8567, <<8551>>>>, <<8568, <<8552>>>>,
    <<8569, <<8553>>>>, <<8570, <<8554>>>>, <<8571, <<8555>>>>, <<8572, <<8556>>>>,
    <<8573, <<8557>>>>, <<8574, <<8558>>>>, <<8575, <<8559>>>>, <<8580, <<8579>>>>,
    <<9424, <<9398>>>>, <<9425, <<9399>>>>, <<9426, <<9400>>>>, <<9427, <<9401>>>>,
    <<9428, <<9402>>>>, <<9429, <<9403>>>>, <<9430, <<9404>>>>, <<9431, <<9405>>>>,
    <<9432, <<9406>>>>, <<9433, <<9407>>>>, <<9434, <<9408>>>>, <<9435, <<9409>>>>,
    <<9436, <<9410>>>>, <<9437, <<9411>>>>, <<9438, <<9412>>>>, <<9439, <<9413>>>>,
    <<9440, <<9414>>>>, <<9441, <<9415>>>>, <<9442, <<9416>>>>, <<9443, <<9417>>>>,
    <<9444, <<9418>>>>, <<9445, <<9419>>>>, <<9446, <<9420>>>>, <<9447, <<9421>>>>,
    <<9448, <<9422>>>>, <<9449, <<9423>>>>, <<11312, <<11264>>>>, <<11313, <<11265>>>>,
    <<11314, <<11266>>>>, <<11315, <<11267>>>>, <<11316, <<11268>>>>, <<11317, <<11269>>>>,
    <<11318, <<11270>>>>, <<11319, <<11271>>>>, <<11320, <<11272>>>>, <<11321, <<11273>>>>,
    <<11322, <<11274>>>>, <<11323, <<11275>>>>, <<11324, <<11276>>>>, <<11325, <<11277>>>>,
    <<11326, <<11278>>>>, <<11327, <<11279>>>>, <<11328, <<11280>>>>, <<11329, <<11281>>>>,
    <<11330, <<11282>>>>, <<11331, <<11283>>>>, <<11332, <<11284>>>>, <<11333, <<11285>>>>,
    <<11334, <<11286>>>>, <<11335, <<11287>>>>, <<11336, <<11288>>>>, <<11337, <<11289>>>>,
    <<11338, <<11290>>>>, <<11339, <<11291>>>>, <<11340, <<11292>>>>, <<11341, <<11293>>>>,
    <<11342, <<11294>>>>, <<11343, <<11295>>>>, <<11344, <<11296>>>>, <<11345, <<11297>>>>,
    <<11346, <<11298>>>>, <<11347, <<11299>>>>, <<11348, <<11300>>>>, <<11349, <<11301>>>>,
    <<11350, <<11302>>>>, <<11351, <<11303>>>>, <<11352, <<11304>>>>, <<11353, <<11305>>>>,
    <<11354, <<11306>>>>, <<11355, <<11307>>>>, <<11356, <<11308>>>>, <<11357, <<11309>>>>,
    <<11358, <<11310>>>>, <<11359, <<11311>>>>, <<11361, <<11360>>>>, <<11365, <<570>>>>,
    <<11366, <<574>>>>, <<11368, <<11367>>>>, <<11370, <<11369>>>>, <<11372, <<11371>>>>,
    <<11379, <<11378>>>>, <<11382, <<11381>>>>, <<11393, <<11392>>>>, <<11395, <<11394>>>>,
    <<11397, <<11396>>>>, <<11399, <<11398>>>>, <<11401, <<11400>>>>, <<11403, <<11402>>>>,
    <<11405, <<11404>>>>, <<11407, <<11406>>>>, <<11409, <<11408>>>>, <<11411, <<11410>>>>,
    <<11413, <<11412>>>>, <<11415, <<11414>>>>, <<11417, <<11416>>>>, <<11419, <<11418>>>>,
    <<11421, <<11420>>>>, <<11423, <<11422>>>>, <<11425, <<11424>>>>, <<11427, <<11426>>>>,
    <<11429, <<11428>>>>, <<11431, <<11430>>>>, <<11433, <<11432>>>>, <<11435, <<11434>>>>,
    <<11437, <<11436>>>>, <<11439, <<11438>>>>, <<11441, <<11440>>>>, <<11443, <<11442>>>>,
    <<11445, <<11444>>>>, <<11447, <<11446>>>>, <<11449, <<11448>>>>, <<11451, <<11450>>>>,
    <<11453, <<11452>>>>, <<11455, <<11454>>>>, <<11457, <<11456>>>>, <<11459, <<11458>>>>,
    <<11461, <<11460>>>>, <<11463, <<11462>>>>, <<11465, <<11464>>>>, <<11467, <<11466>>>>,
    <<11469, <<11468>>>>, <<11471, <<11470>>>>, <<11473, <<11472>>>>, <<11475, <<11474>>>>,
    <<11477, <<11476>>>>, <<11479, <<11478>>>>, <<11481, <<11480>>>>, <<11483, <<11482>>>>,
    <<11485, <<11484>>>>, <<11487, <<11486>>>>, <<11489, <<11488>>>>, <<11491, <<11490>>>>,
    <<11500, <<11499>>>>, <<11502, <<11501>>>>, <<11507, <<11506>>>>, <<11520, <<4256>>>>,
    <<11521, <<4257>>>>, <<11522, <<4258>>>>, <<11523, <<4259>>>>, <<11524, <<4260>>>>,
    <<11525, <<4261>>>>, <<11526, <<4262>>>>, <<11527, <<4263>>>>, <<11528, <<4264>>>>,
    <<11529, <<4265>>>>, <<11530, <<4266>>>>, <<11531, <<4267>>>>, <<11532, <<4268>>>>,
    <<11533, <<4269>>>>, <<11534, <<4270>>>>, <<11535, <<4271>>>>, <<11536, <<4272>>>>,
    <<11537, <<4273>>>>, <<11538, <<4274>>>>, <<11539, <<4275>>>>, <<11540, <<4276>>>>,
    <<11541, <<4277>>>>, <<11542, <<4278>>>>, <<11543, <<4279>>>>, <<11544, <<4280>>>>,
    <<11545, <<4281>>>>, <<11546, <<4282>>>>, <<11547, <<4283>>>>, <<11548, <<4284>>>>,
    <<11549, <<4285>>>>, <<11550, <<4286>>>>, <<11551, <<4287>>>>, <<11552, <<4288>>>>,
    <<11553, <<4289>>>>, <<11554, <<4290>>>>, <<11555, <<4291>>>>, <<11556, <<4292>>>>,
    <<11557, <<4293>>>>, <<11559, <<4295>>>>, <<11565, <<4301>>>>, <<42561, <<42560>>>>,
    <<42563, <<42562>>>>, <<42565, <<42564>>>>, <<42567, <<42566>>>>, <<42569, <<42568>>>>,
    <<42571, <<42570>>>>, <<42573, <<42572>>>>, <<42575, <<42574>>>>, <<42577, <<42576>>>>,
    <<42579, <<42578>>>>, <<42581, <<42580>>>>, <<42583, <<42582>>>>, <<42585, <<42584>>>>,
    <<42587, <<42586>>>>, <<42589, <<42588>>>>, <<42591, <<42590>>>>, <<42593, <<42592>>>>,
    <<42595, <<42594>>>>, <<42597, <<42596>>>>, <<42599, <<42598>>>>, <<42601, <<42600>>>>,
    <<42603, <<42602>>>>, <<42605, <<42604>>>>, <<42625, <<42624>>>>, <<42627, <<42626>>>>,
    <<42629, <<42628>>>>, <<42631, <<42630>>>>, <<42633, <<42632>>>>, <<42635, <<42634>>>>,
    <<42637, <<42636>>>>, <<42639, <<42638>>>>, <<42641, <<42640>>>>, <<42643, <<42642>>>>,
    <<42645, <<42644>>>>, <<42647, <<42646>>>>, <<42649, <<42648>>>>, <<42651, <<42650>>>>,
    <<42787, <<42786>>>>, <<42789, <<42788>>>>, <<42791, <<42790>>>>, <<42793, <<42792>>>>,
    <<42795, <<42794>>>>, <<42797, <<42796>>>>, <<42799, <<42798>>>>, <<42803, <<42802>>>>,
    <<42805, <<42804>>>>, <<42807, <<42806>>>>, <<42809, <<42808>>>>, <<42811, <<42810>>>>,
    <<42813, <<42812>>>>, <<42815, <<42814>>>>, <<42817, <<42816>>>>, <<42819, <<42818>>>>,
    <<42821, <<42820>>>>, <<42823, <<42822>>>>, <<42825, <<42824>>>>, <<42827, <<42826>>>>,
    <<42829, <<42828>>>>, <<42831, <<42830>>>>, <<42833, <<42832>>>>, <<42835, <<42834>>>>,
    <<42837, <<42836>>>>, <<42839, <<42838>>>>, <<42841, <<42840>>>>, <<42843, <<42842>>>>,
    <<42845, <<42844>>>>, <<42847, <<42846>>>>, <<42849, <<42848>>>>, <<42851, <<42850>>>>,
    <<42853, <<42852>>>>, <<42855, <<42854>>>>, <<42857, <<42856>>>>, <<42859, <<42858>>>>,
    <<42861, <<42860>>>>, <<42863, <<42862>>>>, <<42874, <<42873>>>>, <<42876, <<42875>>>>,
    <<42879, <<42878>>>>, <<42881, <<42880>>>>, <<42883, <<42882>>>>, <<42885, <<42884>>>>,
    <<42887, <<42886>>>>, <<42892, <<42891>>>>, <<42897, <<42896>>>>, <<42899, <<42898>>>>,
    <<42900, <<42948>>>>, <<42903, <<42902>>>>, <<42905, <<42904>>>>, <<42907, <<42906>>>>,
    <<42909, <<42908>>>>, <<42911, <<42910>>>>, <<42913, <<42912>>>>, <<42915, <<42914>>>>,
    <<42917, <<42916>>>>, <<42919, <<42918>>>>, <<42921, <<42920>>>>, <<42933, <<42932>>>>,
    <<42935, <<42934>>>>, <<42937, <<42936>>>>, <<42939, <<42938>>>>, <<42941, <<42940>>>>,
    <<42943, <<42942>>>>, <<42945, <<42944>>>>, <<42947, <<42946>>>>, <<42952, <<42951>>>>,
    <<42954, <<42953>>>>, <<42961, <<42960>>>>, <<42967, <<42966>>>>, <<42969, <<42968>>>>,
    <<42998, <<42997>>>>, <<43859, <<42931>>>>, <<43888, <<5024>>>>, <<43889, <<5025>>>>,
    <<43890, <<5026>>>>, <<43891, <<5027>>>>, <<43892, <<5028>>>>, <<43893, <<5029>>>>,
    <<43894, <<5030>>>>, <<43895, <<5031>>>>, <<43896, <<5032>>>>, <<43897, <<5033>>>>,
    <<43898, <<5034>>>>, <<43899, <<5035>>>>, <<43900, <<5036>>>>, <<43901, <<5037>>>>,
    <<43902, <<5038>>>>, <<43903, <<5039>>>>, <<43904, <<5040>>>>, <<43905, <<5041>>>>,
    <<43906, <<5042>>>>, <<43907, <<5043>>>>, <<43908, <<5044>>>>, <<43909, <<5045>>>>,
    <<43910, <<5046>>>>, <<43911, <<5047>>>>, <<43912, <<5048>>>>, <<43913, <<5049>>>>,
    <<43914, <<5050>>>>, <<43915, <<5051>>>>, <<43916, <<5052>>>>, <<43917, <<5053>>>>,
    <<43918, <<5054>>>>, <<43919, <<5055>>>>, <<43920, <<5056>>>>, <<43921, <<5057>>>>,
    <<43922, <<5058>>>>, <<43923, <<5059>>>>, <<43924, <<5060>>>>, <<43925, <<5061>>>>,
    <<43926, <<5062>>>>, <<43927, <<5063>>>>, <<43928, <<5064>>>>, <<43929, <<5065>>>>,
    <<43930, <<5066>>>>, <<43931, <<5067>>>>, <<43932, <<5068>>>>, <<43933, <<5069>>>>,
    <<43934, <<5070>>>>, <<43935, <<5071>>>>, <<43936, <<5072>>>>, <<43937, <<5073>>>>,
    <<43938, <<5074>>>>, <<43939, <<5075>>>>, <<43940, <<5076>>>>, <<43941, <<5077>>>>,
    <<43942, <<5078>>>>, <<43943, <<5079>>>>, <<43944, <<5080>>>>, <<43945, <<5081>>>>,
    <<43946, <<5082>>>>, <<43947, <<5083>>>>, <<43948, <<5084>>>>, <<43949, <<5085>>>>,
    <<43950, <<5086>>>>, <<43951, <<5087>>>>, <<43952, <<5088>>>>, <<43953, <<5089>>>>,
    <<43954, <<5090>>>>, <<43955, <<5091>>>>, <<43956, <<5092>>>>, <<43957, <<5093>>>>,
    <<43958, <<5094>>>>, <<43959, <<5095>>>>, <<43960, <<5096>>>>, <<43961, <<5097>>>>,
    <<43962, <<5098>>>>, <<43963, <<5099>>>>, <<43964, <<5100>>>>, <<43965, <<5101>>>>,
    <<43966, <<5102>>>>, <<43967, <<5103>>>>, <<64256, <<70,70>>>>, <<64257, <<70,73>>>>,
    <<64258, <<70,76>>>>, <<64259, <<70,70,73>>>>, <<64260, <<70,70,76>>>>,
    <<64261, <<83,84>>>>, <<64262, <<83,84>>>>, <<64275, <<1348,1350>>>>,
    <<64276, <<1348,1333>>>>, <<64277, <<1348,1339>>>>, <<64278, <<1358,1350>>>>,
    <<64279, <<1348,1341>>>>, <<65345, <<65313>>>>, <<65346, <<65314>>>>, <<65347, <<65315>>>>,
    <<65348, <<65316>>>>, <<65349, <<65317>>>>, <<65350, <<65318>>>>, <<65351, <<65319>>>>,
    <<65352, <<65320>>>>, <<65353, <<65321>>>>, <<65354, <<65322>>>>, <<65355, <<65323>>>>,
    <<65356, <<65324>>>>, <<65357, <<65325>>>>, <<65358, <<65326>>>>, <<65359, <<65327>>>>,
    <<65360, <<65328>>>>, <<65361, <<65329>>>>, <<65362, <<65330>>>>, <<65363, <<65331>>>>,
    <<65364, <<65332>>>>, <<65365, <<65333>>>>, <<65366, <<65334>>>>, <<65367, <<65335>>>>,
    <<65368, <<65336>>>>, <<65369, <<65337>>>>, <<65370, <<65338>>>>, <<66600, <<66560>>>>,
    <<66601, <<66561>>>>, <<66602, <<66562>>>>, <<66603, <<66563>>>>, <<66604, <<66564>>>>,
    <<66605, <<66565>>>>, <<66606, <<66566>>>>, <<66607, <<66567>>>>, <<66608, <<66568>>>>,
    <<66609, <<66569>>>>, <<66610, <<66570>>>>, <<66611, <<66571>>>>, <<66612, <<66572>>>>,
    <<66613, <<66573>>>>, <<66614, <<66574>>>>, <<66615, <<66575>>>>, <<66616, <<66576>>>>,
    <<66617, <<66577>>>>, <<66618, <<66578>>>>, <<66619, <<66579>>>>, <<66620, <<66580>>>>,
    <<66621, <<66581>>>>, <<66622, <<66582>>>>, <<66623, <<66583>>>>, <<66624, <<66584>>>>,
    <<66625, <<66585>>>>, <<66626, <<66586>>>>, <<66627, <<66587>>>>, <<66628, <<66588>>>>,
    <<66629, <<66589>>>>, <<66630, <<66590>>>>, <<66631, <<66591>>>>, <<66632, <<66592>>>>,
    <<66633, <<66593>>>>, <<66634, <<66594>>>>, <<66635, <<66595>>>>, <<66636, <<66596>>>>,
    <<66637, <<66597>>>>, <<66638, <<66598>>>>, <<66639, <<66599>>>>, <<66776, <<66736>>>>,
    <<66777, <<66737>>>>, <<66778, <<66738>>>>, <<66779, <<66739>>>>, <<66780, <<66740>>>>,
    <<66781, <<66741>>>>, <<66782, <<66742>>>>, <<66783, <<66743>>>>, <<66784, <<66744>>>>,
    <<66785, <<66745>>>>, <<66786, <<66746>>>>, <<66787, <<66747>>>>, <<66788, <<66748>>>>,
    <<66789, <<66749>>>>, <<66790, <<66750>>>>, <<66791, <<66751>>>>, <<66792, <<66752>>>>,
    <<66793, <<66753>>>>, <<66794, <<66754>>>>, <<66795, <<66755>>>>, <<66796, <<66756>>>>,
    <<66797, <<66757>>>>, <<66798, <<66758>>>>, <<66799, <<66759>>>>, <<66800, <<66760>>>>,
    <<66801, <<66761>>>>, <<66802, <<66762>>>>, <<66803, <<66763>>>>, <<66804, <<66764>>>>,
    <<66805, <<66765>>>>, <<66806, <<66766>>>>, <<66807, <<66767>>>>, <<66808, <<66768>>>>,
    <<66809, <<66769>>>>, <<66810, <<66770>>>>, <<66811, <<66771>>>>, <<66967, <<66928>>>>,
    <<66968, <<66929>>>>, <<66969, <<66930>>>>, <<66970, <<66931>>>>, <<66971, <<66932>>>>,
    <<66972, <<66933>>>>, <<66973, <<66934>>>>, <<66974, <<66935>>>>, <<66975, <<66936>>>>,
    <<66976, <<66937>>>>, <<66977, <<66938>>>>, <<66979, <<66940>>>>, <<66980, <<66941>>>>,
    <<66981, <<66942>>>>, <<66982, <<66943>>>>, <<66983, <<66944>>>>, <<66984, <<66945>>>>,
    <<66985, <<66946>>>>, <<66986, <<66947>>>>, <<66987, <<66948>>>>, <<66988, <<66949>>>>,
    <<66989, <<66950>>>>, <<66990, <<66951>>>>, <<66991, <<66952>>>>, <<66992, <<66953>>>>,
    <<66993, <<66954>>>>, <<66995, <<66956>>>>, <<66996, <<66957>>>>, <<66997, <<66958>>>>,
    <<66998, <<66959>>>>, <<66999, <<66960>>>>, <<67000, <<66961>>>>, <<67001, <<66962>>>>,
    <<67003, <<66964>>>>, <<67004, <<66965>>>>, <<68800, <<68736>>>>, <<68801, <<68737>>>>,
    <<68802, <<68738>>>>, <<68803, <<68739>>>>, <<68804, <<68740>>>>, <<68805, <<68741>>>>,
    <<68806, <<68742>>>>, <<68807, <<68743>>>>, <<68808, <<68744>>>>, <<68809, <<68745>>>>,
    <<68810, <<68746>>>>, <<68811, <<68747>>>>, <<68812, <<68748>>>>, <<68813, <<68749>>>>,
    <<68814, <<68750>>>>, <<68815, <<68751>>>>, <<68816, <<68752>>>>, <<68817, <<68753>>>>,
    <<68818, <<68754>>>>, <<68819, <<68755>>>>, <<68820, <<68756>>>>, <<68821, <<68757>>>>,
    <<68822, <<68758>>>>, <<68823, <<68759>>>>, <<68824, <<68760>>>>, <<68825, <<68761>>>>,
    <<68826, <<68762>>>>, <<68827, <<68763>>>>, <<68828, <<68764>>>>, <<68829, <<68765>>>>,
    <<68830, <<68766>>>>, <<68831, <<68767>>>>, <<68832, <<68768>>>>, <<68833, <<68769>>>>,
    <<68834, <<68770>>>>, <<68835, <<68771>>>>, <<68836, <<68772>>>>, <<68837, <<68773>>>>,
    <<68838, <<68774>>>>, <<68839, <<68775>>>>, <<68840, <<68776>>>>, <<68841, <<68777>>>>,
    <<68842, <<68778>>>>, <<68843, <<68779>>>>, <<68844, <<68780>>>>, <<68845, <<68781>>>>,
    <<68846, <<68782>>>>, <<68847, <<68783>>>>, <<68848, <<68784>>>>, <<68849, <<68785>>>>,
    <<68850, <<68786>>>>, <<71872, <<71840>>>>, <<71873, <<71841>>>>, <<71874, <<71842>>>>,
    <<71875, <<71843>>>>, <<71876, <<71844>>>>, <<71877, <<71845>>>>, <<71878, <<71846>>>>,
    <<71879, <<71847>>>>, <<71880, <<71848>>>>, <<71881, <<71849>>>>, <<71882, <<71850>>>>,
    <<71883, <<71851>>>>, <<71884, <<71852>>>>, <<71885, <<71853>>>>, <<71886, <<71854>>>>,
    <<71887, <<71855>>>>, <<71888, <<71856>>>>, <<71889, <<71857>>>>, <<71890, <<71858>>>>,
    <<71891, <<71859>>>>, <<71892, <<71860>>>>, <<71893, <<71861>>>>, <<71894, <<71862>>>>,
    <<71895, <<71863>>>>, <<71896, <<71864>>>>, <<71897, <<71865>>>>, <<71898, <<71866>>>>,
    <<71899, <<71867>>>>, <<71900, <<71868>>>>, <<71901, <<71869>>>>, <<71902, <<71870>>>>,
    <<71903, <<71871>>>>, <<93792, <<93760>>>>, <<93793, <<93761>>>>, <<93794, <<93762>>>>,
    <<93795, <<93763>>>>, <<93796, <<93764>>>>, <<93797, <<93765>>>>, <<93798, <<93766>>>>,
    <<93799, <<93767>>>>, <<93800, <<93768>>>>, <<93801, <<93769>>>>, <<93802, <<93770>>>>,
    <<93803, <<93771>>>>, <<93804, <<93772>>>>, <<93805, <<93773>>>>, <<93806, <<93774>>>>,
    <<93807, <<93775>>>>, <<93808, <<93776>>>>, <<93809, <<93777>>>>, <<93810, <<93778>>>>,
    <<93811, <<93779>>>>, <<93812, <<93780>>>>, <<93813, <<93781>>>>, <<93814, <<93782>>>>,
    <<93815, <<93783>>>>, <<93816, <<93784>>>>, <<93817, <<93785>>>>, <<93818, <<93786>>>>,
    <<93819, <<93787>>>>, <<93820, <<93788>>>>, <<93821, <<93789>>>>, <<93822, <<93790>>>>,
    <<93823, <<93791>>>>, <<125218, <<125184>>>>, <<125219, <<125185>>>>,
    <<125220, <<125186>>>>, <<125221, <<125187>>>>, <<125222, <<125188>>>>,
    <<125223, <<125189>>>>, <<125224, <<125190>>>>, <<125225, <<125191>>>>,
    <<125226, <<125192>>>>, <<125227, <<125193>>>>, <<125228, <<125194>>>>,
    <<125229, <<125195>>>>, <<125230, <<125196>>>>, <<125231, <<125197>>>>,
    <<125232, <<125198>>>>, <<125233, <<125199>>>>, <<125234, <<125200>>>>,
    <<125235, <<125201>>>>, <<125236, <<125202>>>>, <<125237, <<125203>>>>,
    <<125238, <<125204>>>>, <<125239, <<125205>>>>, <<125240, <<125206>>>>,
    <<125241, <<125207>>>>, <<125242, <<125208>>>>, <<125243, <<125209>>>>,
    <<125244, <<125210>>>>, <<125245, <<125211>>>>, <<125246, <<125212>>>>,
    <<125247, <<125213>>>>, <<125248, <<125214>>>>, <<125249, <<125215>>>>,
    <<125250, <<125216>>>>, <<125251, <<125217>>>>}

\* the characters of a set of ranges
InRanges(ranges) == UNION {r[1]..r[2] : r \in ranges}

Digits == InRanges(DigitRanges)
WordAfterAscii == InRanges(WordRanges)
IsDigit(c) == c \in Digits                       \* \d
IsSpace(c) == c \in Spaces                       \* \s, str.strip, str.split
\* \w: ASCII letters, 0-9 and "_", and the word characters after ASCII
IsWord(c) ==
    IF c <= MaxAscii THEN IsUpper(c) \/ IsLower(c) \/ c \in 48..57 \/ c = Ord["_"]
    ELSE c \in WordAfterAscii

\* str.upper on one character that it changes: the text it becomes
Cased == {p[1] : p \in UpperTable}
UpperOf == [c \in Cased |-> (CHOOSE p \in UpperTable : p[1] = c)[2]]

\* re.I: the lower-case ASCII letter a character is matched as; besides A-Z
\* these are U+0130 and U+0131 (i), U+017F (s) and U+212A (k)
Folded == Uppers \cup {304, 305, 383, 8490}
LowerOf ==
    [c \in Folded |->
        IF c \in Uppers THEN c + CaseGap
        ELSE IF c = 383 THEN Ord["s"]
        ELSE IF c = 8490 THEN Ord["k"]
        ELSE Ord["i"]]

\* c.upper(), a text of one or more characters
ToUpper(c) == IF c \in Cased THEN UpperOf[c] ELSE <<c>>
\* the character c is compared as under re.I
ToLower(c) == IF c \in Folded THEN LowerOf[c] ELSE c

\* the least element of a non-empty set of integers
Least(S) == CHOOSE x \in S : \A y \in S : x <= y

Min(a, b) == IF a < b THEN a ELSE b
Max(a, b) == IF a > b THEN a ELSE b

\* s[i:j] of Python with 1-based inclusive ends: characters i..j
Slice(s, i, j) == IF j < i THEN <<>> ELSE SubSeq(s, i, j)

RECURSIVE Flatten(_)
Flatten(ss) == IF ss = <<>> THEN <<>> ELSE Head(ss) \o Flatten(Tail(ss))

\* s.upper()
Upper(s) == Flatten([i \in DOMAIN s |-> ToUpper(s[i])])

\* the literal lit stands in text at position i (re.I when ci)
LitAt(text, i, lit, ci) ==
    /\ i >= 1
    /\ i + Len(lit) - 1 <= Len(text)
    /\ \A k \in 1..Len(lit) :
          IF ci THEN ToLower(text[i + k - 1]) = ToLower(lit[k])
                ELSE text[i + k - 1] = lit[k]

\* \b between position i-1 and i of text
WordBoundary(text, i) ==
    LET before == i - 1 >= 1 /\ i - 1 <= Len(text) /\ IsWord(text[i - 1])
        after  == i >= 1 /\ i <= Len(text) /\ IsWord(text[i])
    IN  before /= after

\* x in s for strings: lit occurs somewhere in text
Contains(text, lit) == \E i \in 1..Len(text) : LitAt(text, i, lit, FALSE)

\* the first element of the sequence cands that is in the set good, as a
\* one-element sequence, or <<>>: the order in which a backtracking matcher
\* (or a for loop that returns at its first hit) tries its choices
FirstSat(cands, good) ==
    LET ok == {k \in DOMAIN cands : cands[k] \in good}
    IN  IF ok = {} THEN <<>>
        ELSE <<cands[CHOOSE k \in ok : \A m \in ok : k <= m]>>

(***************************************************************************)
(* PRICE_RE and extract_price                                              *)
(***************************************************************************)
MinAmountDigits == 2
MaxAmountDigits == 6
FractionDigits == 2

\* number of consecutive digits of text from position i on
RECURSIVE DigitRun(_, _)
DigitRun(text, i) ==
    IF i <= Len(text) /\ IsDigit(text[i]) THEN 1 + DigitRun(text, i + 1) ELSE 0

\* [.,]\d{2} stands at position p
FractionAt(text, p) ==
    /\ p <= Len(text)
    /\ text[p] \in {Ord["."], Ord[","]}
    /\ DigitRun(text, p + 1) >= FractionDigits

\* the lengths \d{k}(?:[.,]\d{2})? can match at position i, fraction first
LensWithDigits(text, i, k) ==
    IF FractionAt(text, i + k) THEN <<k + 1 + FractionDigits, k>> ELSE <<k>>

\* \d{2,6}(?:[.,]\d{2})? at position i where run digits stand: the lengths
\* it can match, in the order the matcher tries them (most digits first)
AmountLensOfRun(text, i, run) ==
    Flatten([n \in 1..Max(0, run - MinAmountDigits + 1) |-> LensWithDigits(text, i, run - n + 1)])

AmountLens(text, i) == AmountLensOfRun(text, i, Min(DigitRun(text, i), MaxAmountDigits))

\* \s? at position i: the positions after it, in the order tried
OptSpace(text, i) ==
    IF i <= Len(text) /\ IsSpace(text[i]) THEN <<i + 1, i>> ELSE <<i>>

NoMatch == [start |-> 0, usd1 |-> None, usd2 |-> None, eur |-> None, eur2 |-> None]

\* the group of a match whose amount starts at the position in hit (<<>>: none)
AmountGroupAt(text, hit) ==
    IF hit = <<>> THEN None
    ELSE Slice(text, hit[1], hit[1] + Head(AmountLens(text, hit[1])) - 1)

\* (?:\$\s?)(?P<usd1>amount) and (?:EURO\s?)(?P<eur2>amount): sign first
SignFirst(text, i, sign) ==
    IF ~(i <= Len(text) /\ text[i] = sign) THEN None
    ELSE AmountGroupAt(text, FirstSat(OptSpace(text, i + 1),
                                      {s \in {i + 1, i + 2} : AmountLens(text, s) /= <<>>}))

\* \s?(?:w1|w2|...) stands at position p
WordFollows(text, p, words) ==
    \E q \in Range(OptSpace(text, p)) : \E w \in words : LitAt(text, q, w, FALSE)

\* the first of the lengths lens after which \s?(?:w1|w2|...) stands
FirstFollowed(text, i, words, lens) ==
    FirstSat(lens, {n \in Range(lens) : WordFollows(text, i + n, words)})

\* the group of a match of length hit[1] at position i (<<>>: none)
AmountGroupOf(text, i, hit) ==
    IF hit = <<>> THEN None ELSE Slice(text, i, i + hit[1] - 1)

\* (?P<g>amount)\s?(?:w1|w2|...): amount first, then one of the literals
AmountFirst(text, i, words) ==
    AmountGroupOf(text, i, FirstFollowed(text, i, words, AmountLens(text, i)))

\* the match object at position i given what each alternative matched: the
\* first alternative that matched gives the match
FirstAlternative(i, u1, u2, e1, e2) ==
    IF u1 /= None THEN [NoMatch EXCEPT !.start = i, !.usd1 = u1]
    ELSE IF u2 /= None THEN [NoMatch EXCEPT !.start = i, !.usd2 = u2]
    ELSE IF e1 /= None THEN [NoMatch EXCEPT !.start = i, !.eur = e1]
    ELSE IF e2 /= None THEN [NoMatch EXCEPT !.start = i, !.eur2 = e2]
    ELSE NoMatch

\* PRICE_RE.match at position i
PRICE_RE_at(text, i) ==
    FirstAlternative(i,
        SignFirst(text, i, Ord["$"]),
        AmountFirst(text, i, {Text(<<"u","s","d">>), Text(<<"U","S","D">>)}),
        AmountFirst(text, i, {Text(<<"e","u","r">>), Text(<<"E","U","R">>), Text(<<"U+20AC">>)}),
        SignFirst(text, i, EURO))

\* the match at the least of the positions at, or NoMatch
MatchAtLeast(text, at) == IF at = {} THEN NoMatch ELSE PRICE_RE_at(text, Least(at))

\* PRICE_RE.search(text): the match at the leftmost position that has one
PRICE_RE_search(text) ==
    MatchAtLeast(text, {i \in 1..Len(text) : PRICE_RE_at(text, i) /= NoMatch})

\* line 64 left out: the amount is returned as matched
RemoveNothing(s, ch) == s

\* str.replace(ch, "")
RECURSIVE Remove(_, _)
Remove(s, ch) ==
    IF s = <<>> THEN <<>>
    ELSE IF Head(s) = ch THEN Remove(Tail(s), ch)
    ELSE <<Head(s)>> \o Remove(Tail(s), ch)

\* a or b of Python for values that are None or a non-empty text
Or(a, b) == IF a /= None /\ a /= <<>> THEN a ELSE b

\* lines 58-65 for the match m
PriceOfMatch(m) ==
    IF Or(m.usd1, m.usd2) /= None
    THEN Text(<<"U","S","D">>) \o Text(<<" ">>) \o Remove(Or(m.usd1, m.usd2), Ord[","])
    ELSE Text(<<"E","U","R">>) \o Text(<<" ">>) \o Remove(Or(m.eur, m.eur2), Ord[","])

\* lines 54-56, 58-65 for the result of the search
PriceOfSearch(m) == IF m = NoMatch THEN None ELSE PriceOfMatch(m)

extract_price(text) ==
    IF text = None \/ text = <<>> THEN None
    ELSE PriceOfSearch(PRICE_RE_search(text))

(***************************************************************************)
(* TITLE_TAG_RE and extract_location_from_title                            *)
(***************************************************************************)
\* position of the first "]" of text at or after i, or 0
NextClose(text, i) ==
    LET at == {j \in i..Len(text) : text[j] = Ord["]"]}
    IN  IF at = {} THEN 0 ELSE Least(at)

\* \[[^\]]+\] at position i: the position of its closing bracket, or 0
TagEnd(text, i) ==
    IF i <= Len(text) /\ text[i] = Ord["["]
    THEN LET j == NextClose(text, i + 1)
         IN  IF j > i + 1 THEN j ELSE 0
    ELSE 0

\* position of the leftmost match of \[[^\]]+\] at or after i, or 0
NextTag(text, i) ==
    LET at == {p \in i..Len(text) : TagEnd(text, p) /= 0}
    IN  IF at = {} THEN 0 ELSE Least(at)

\* TITLE_TAG_RE.findall(text) from position i on: the tag groups, in order
RECURSIVE FindTags(_, _)
FindTags(text, i) ==
    LET p == NextTag(text, i)
    IN  IF p = 0 THEN <<>>
        ELSE <<Slice(text, p + 1, TagEnd(text, p) - 1)>>
             \o FindTags(text, TagEnd(text, p) + 1)

TITLE_TAG_RE_findall(text) == FindTags(text, 1)

\* str.strip(): from the first to the last character that is not whitespace
Strip(s) ==
    LET solid == {k \in DOMAIN s : ~IsSpace(s[k])}
    IN  IF solid = {} THEN <<>>
        ELSE Slice(s, Least(solid), CHOOSE k \in solid : \A m \in solid : m <= k)

\* line 74: the substrings looked for in the upper-cased tag
LOCATION_WORDS == {Text(<<"U","S","A">>), Text(<<"U","S">>), Text(<<"C","A","N">>), Text(<<"E","U">>),
                   Text(<<"U","K">>), Text(<<"A","U","S">>), Text(<<"N","Z">>)}

StateCodeLen == 2
\* lines 74 and 77: what makes a stripped tag a location
LooksLikeLocation(tt) ==
    \/ \E x \in LOCATION_WORDS : Contains(Upper(tt), x)
    \/ (Len(tt) = StateCodeLen /\ \A k \in DOMAIN tt : IsUpper(tt[k]))

extract_location_from_title(text) ==
    LET tags == TITLE_TAG_RE_findall(IF text = None THEN <<>> ELSE text)
        stripped == [k \in DOMAIN tags |-> Strip(tags[k])]
        hit == FirstSat(stripped, {tt \in Range(stripped) : LooksLikeLocation(tt)})
    IN  IF hit = <<>> THEN None ELSE hit[1]

\* line 144 with the body consulted first
extract_location_body_first(t, b) ==
    Or(extract_location_from_title(b), extract_location_from_title(t))

\* line 144
extract_location(t, b) ==
    Or(extract_location_from_title(t), extract_location_from_title(b))

(***************************************************************************)
(* SHIP_DEST_HINTS and extract_ship_dests                                  *)
(***************************************************************************)
\* re.compile(r"\bW1\b|\bW2\b", re.I).search(text) for literal words
SearchWords(text, words) ==
    \E w \in words : \E i \in 1..Len(text) :
        /\ WordBoundary(text, i)
        /\ LitAt(text, i, w, TRUE)
        /\ WordBoundary(text, i + Len(w))

SHIP_DEST_HINTS == <<
    [label |-> Text(<<"C","O","N","U","S">>),
     rx |-> {Text(<<"C","O","N","U","S">>)}],
    [label |-> Text(<<"U","S","A">>),
     rx |-> {Text(<<"U","S","A">>), Text(<<"U","S"," ","o","n","l","y">>)}],
    [label |-> Text(<<"C","A","N","A","D","A">>),
     rx |-> {Text(<<"C","a","n","a","d","a">>), Text(<<"C","A","N">>)}],
    [label |-> Text(<<"E","U">>),
     rx |-> {Text(<<"E","U">>), Text(<<"E","u","r","o","p","e">>)}],
    [label |-> Text(<<"U","K">>),
     rx |-> {Text(<<"U","K">>), Text(<<"U","n","i","t","e","d"," ","K","i","n","g","d","o","m">>)}],
    [label |-> Text(<<"W","O","R","L","D","W","I","D","E">>),
     rx |-> {Text(<<"w","o","r","l","d","w","i","d","e">>),
             Text(<<"W","W"," ","s","h","i","p","p","i","n","g">>),
             Text(<<"i","n","t","e","r","n","a","t","i","o","n","a","l">>)}] >>

\* lines 84-87: the labels of the hints that match, in declaration order
RECURSIVE FoundLabels(_, _)
FoundLabels(text, k) ==
    IF k > Len(SHIP_DEST_HINTS) THEN <<>>
    ELSE (IF SearchWords(text, SHIP_DEST_HINTS[k].rx)
          THEN <<SHIP_DEST_HINTS[k].label>> ELSE <<>>) \o FoundLabels(text, k + 1)

\* lines 91-94: drop repeats, keep first occurrences
RECURSIVE DeDup(_, _)
DeDup(found, out) ==
    IF found = <<>> THEN out
    ELSE DeDup(Tail(found),
               IF Head(found) \in Range(out) THEN out ELSE Append(out, Head(found)))

\* sep.join(parts)
RECURSIVE Join(_, _)
Join(parts, sep) ==
    IF parts = <<>> THEN <<>>
    ELSE IF Len(parts) = 1 THEN parts[1]
    ELSE parts[1] \o sep \o Join(Tail(parts), sep)

\* lines 85-87 leaving the loop at the first hint that matches
extract_ship_dests_first_only(text) ==
    IF text = None \/ text = <<>> THEN None
    ELSE LET found == FoundLabels(text, 1)
         IN  IF found = <<>> THEN None ELSE found[1]

extract_ship_dests(text) ==
    IF text = None \/ text = <<>> THEN None
    ELSE LET found == FoundLabels(text, 1)
         IN  IF found = <<>> THEN None
             ELSE Join(DeDup(found, <<>>), Text(<<",", " ">>))

(***************************************************************************)
(* LABEL_YES_PATTERNS, LABEL_NO_PATTERNS and infer_buyer_label             *)
(***************************************************************************)
\* the texts a concatenation of two sub-patterns matches
Cat(A, B) == {a \o b : a \in A, b \in B}
OptA == {Text(<<"a"," ">>), <<>>}                       \* (?:a )?
LabelWord == {Text(<<"l","a","b","e","l">>)}

LABEL_YES_PATTERNS == <<
    Cat({Text(<<"b","u","y","e","r"," ">>)},
        Cat({Text(<<"p","r","o","v","i","d","e","s">>), Text(<<"s","u","p","p","l","i","e","s">>),
             Text(<<"s","e","n","d","s">>)},
            Cat({Text(<<" ">>)}, Cat(OptA, LabelWord)))),
    Cat({Text(<<"b","u","y","e","r">>)},
        Cat({Text(<<"'">>), Text(<<"U+2019">>)}, {Text(<<"s"," ","l","a","b","e","l">>)})) >>

LABEL_NO_PATTERNS == <<
    Cat({Text(<<"s","e","l","l","e","r"," ">>)},
        Cat({Text(<<"p","r","o","v","i","d","e","s">>), Text(<<"s","u","p","p","l","i","e","s">>)},
            Cat({Text(<<" ">>)}, Cat(OptA, LabelWord)))),
    {Text(<<"s","h","i","p","p","i","n","g"," ","i","n","c","l","u","d","e","d">>)},
    {Text(<<"I"," ","w","i","l","l"," ","s","h","i","p">>)} >>

YES == Text(<<"y","e","s">>)
NO == Text(<<"n","o">>)

\* lines 100-105 with the two loops in the other order
infer_buyer_label_no_first(text) ==
    IF text = None \/ text = <<>> THEN None
    ELSE IF \E k \in DOMAIN LABEL_NO_PATTERNS : SearchWords(text, LABEL_NO_PATTERNS[k])
         THEN NO
    ELSE IF \E k \in DOMAIN LABEL_YES_PATTERNS : SearchWords(text, LABEL_YES_PATTERNS[k])
         THEN YES
    ELSE None

infer_buyer_label(text) ==
    IF text = None \/ text = <<>> THEN None
    ELSE IF \E k \in DOMAIN LABEL_YES_PATTERNS : SearchWords(text, LABEL_YES_PATTERNS[k])
         THEN YES
    ELSE IF \E k \in DOMAIN LABEL_NO_PATTERNS : SearchWords(text, LABEL_NO_PATTERNS[k])
         THEN NO
    ELSE None

(***************************************************************************)
(* extract_brand_model                                                     *)
(***************************************************************************)
MODEL_MAX == 200

\* first position at or after i that is not whitespace (\s*)
SkipSpace(text, i) ==
    LET at == {j \in i..Len(text) : ~IsSpace(text[j])}
    IN  IF at = {} THEN Max(i, Len(text) + 1) ELSE Least(at)

\* re.sub(r"\[[^\]]+\]\s*", "", text) from position i on
RECURSIVE SubTags(_, _)
SubTags(text, i) ==
    LET p == NextTag(text, i)
    IN  IF p = 0 THEN Slice(text, i, Len(text))
        ELSE Slice(text, i, p - 1) \o SubTags(text, SkipSpace(text, TagEnd(text, p) + 1))

\* position after the run of non-whitespace starting at i
SkipWord(text, i) ==
    LET at == {j \in i..Len(text) : IsSpace(text[j])}
    IN  IF at = {} THEN Max(i, Len(text) + 1) ELSE Least(at)

\* str.split() from position i on
RECURSIVE SplitFrom(_, _)
SplitFrom(text, i) ==
    LET s == SkipSpace(text, i)
    IN  IF s > Len(text) THEN <<>>
        ELSE LET e == SkipWord(text, s)
             IN  <<Slice(text, s, e - 1)>> \o SplitFrom(text, e)

Split(text) == SplitFrom(text, 1)

\* line 118 without the [:200]
extract_brand_model_untruncated(t) ==
    IF t = None \/ t = <<>> THEN <<None, None>>
    ELSE LET cleaned == Strip(SubTags(t, 1))
             parts == Split(cleaned)
         IN  IF Len(parts) < 2 THEN <<Or(cleaned, None), None>>
             ELSE <<parts[1], Join(Tail(parts), Text(<<" ">>))>>

extract_brand_model(t) ==
    IF t = None \/ t = <<>> THEN <<None, None>>
    ELSE LET cleaned == Strip(SubTags(t, 1))
             parts == Split(cleaned)
         IN  IF Len(parts) < 2 THEN <<Or(cleaned, None), None>>
             ELSE LET joined == Join(Tail(parts), Text(<<" ">>))
                  IN  <<parts[1], Slice(joined, 1, Min(Len(joined), MODEL_MAX))>>

(***************************************************************************)
(* main(): the time-bounded scan, the frame, the export                    *)
(***************************************************************************)
MONTHS_BACK == 6
FETCH_LIMIT == 5000

\* An instant is an integer number of ticks since 1970-01-01T00:00Z; a UTC
\* calendar day is TicksPerDay ticks.  A date is <<year, month, day>>.
TicksPerDay == 2
MaxInstant == 2
MaxPosts == 3

EpochYear == 1970
IsLeap(y) == y % 4 = 0 /\ (y % 100 /= 0 \/ y % 400 = 0)
MonthLengths == <<31, 28, 31, 30, 31, 30, 31, 31, 30, 31, 30, 31>>
DaysInMonth(y, m) == IF m = 2 /\ IsLeap(y) THEN 29 ELSE MonthLengths[m]

\* leap years before year y, and days from the epoch to the first of year y
LeapsBefore(y) == (y - 1) \div 4 - (y - 1) \div 100 + (y - 1) \div 400
DaysBeforeYear(y) == 365 * (y - EpochYear) + LeapsBefore(y) - LeapsBefore(EpochYear)

RECURSIVE DaysBeforeMonth(_, _)
DaysBeforeMonth(y, m) ==
    IF m = 1 THEN 0 ELSE DaysBeforeMonth(y, m - 1) + DaysInMonth(y, m - 1)

\* the day number (days since the epoch) of a date
DayOfDate(date) == DaysBeforeYear(date[1]) + DaysBeforeMonth(date[1], date[2]) + date[3] - 1

\* the date of day number n >= 0
YearOfDay(n) ==
    CHOOSE y \in (EpochYear + n \div 366)..(EpochYear + n \div 365) :
        DaysBeforeYear(y) <= n /\ n < DaysBeforeYear(y + 1)
MonthOfDay(y, rest) ==
    CHOOSE m \in 1..12 : DaysBeforeMonth(y, m) <= rest /\ rest < DaysBeforeMonth(y, m) + DaysInMonth(y, m)
DateInYear(y, rest) ==
    <<y, MonthOfDay(y, rest), rest - DaysBeforeMonth(y, MonthOfDay(y, rest)) + 1>>
DateOfDay(n) == DateInYear(YearOfDay(n), n - DaysBeforeYear(YearOfDay(n)))

\* the instant k ticks into the day y-m-d
Instant(y, m, d, k) == DayOfDate(<<y, m, d>>) * TicksPerDay + k

\* relativedelta(months=m) taken from a date: the month moves back m months
\* and the day of the month is cut to the length of the month reached
MonthsBeforeDate(date, m) ==
    LET months == date[1] * 12 + (date[2] - 1) - m
        y == months \div 12
        mo == (months % 12) + 1
    IN  <<y, mo, Min(date[3], DaysInMonth(y, mo))>>

\* now - relativedelta(months=m): the time of day is kept
MonthsBefore(now, m) ==
    DayOfDate(MonthsBeforeDate(DateOfDay(now \div TicksPerDay), m)) * TicksPerDay
        + (now % TicksPerDay)

\* the readings of datetime.now(timezone.utc) of line 128: one tick into
\* 2023-08-28 and into 2023-08-31, both six months after 2023-02-28
Clock == {Instant(2023, 8, 28, 1), Instant(2023, 8, 31, 1)}

\* pd.to_datetime(..., errors="coerce") of one date string gives its day, but
\* where the build parses into nanoseconds a day after Timestamp.max
\* (2262-04-11, day 106751) cannot be held and is coerced to NaT
TimestampMaxDay == 106751
NaT == -(TimestampMaxDay + 2)
Units == {"ns", "s"}
to_datetime(date, unit) ==
    IF unit = "ns" /\ DayOfDate(date) > TimestampMaxDay THEN NaT ELSE DayOfDate(date)

\* the instants posts are created at: from one tick before the cutoff to
\* MaxInstant - 1 ticks after it, and one on the day after Timestamp.max
Instants ==
    {MonthsBefore(now, MONTHS_BACK) - 1 + k : now \in Clock, k \in 0..MaxInstant}
        \cup {(TimestampMaxDay + 1) * TicksPerDay}

\* created.astimezone(timezone.utc).strftime("%Y-%m-%d"): the date of the instant
DateString(created) == DateOfDay(created \div TicksPerDay)

\* two posts' worth of text: a full listing, and a post whose title, body and
\* author are all missing
SampleTexts == {
    [title |-> Text(<<"[","W","T","S","]"," ","[","U","K","]"," ","S","e","i","k","o"," ","5">>),
     selftext |-> Text(<<"$","1","5","0"," ","C","O","N","U","S">>),
     author |-> Text(<<"a","l">>)],
    [title |-> None, selftext |-> None, author |-> None] }

Posts == {[title |-> t.title, selftext |-> t.selftext, author |-> t.author,
           created_utc |-> c] : t \in SampleTexts, c \in Instants}

\* lines 148-155: the fields of the record, bm being the brand and model
FieldsOf(bm, t, b, combined, author) ==
    [brand |-> bm[1],
     model |-> bm[2],
     price |-> extract_price(combined),
     buyer_label |-> infer_buyer_label(combined),
     loc |-> extract_location(t, b),
     ship_dests |-> extract_ship_dests(combined),
     username |-> IF author /= None THEN Text(<<"u","/">>) \o author ELSE None]

\* lines 138-146 on the title t and the body b, with "" for a missing one
ExtractFrom(t, b, author) ==
    FieldsOf(extract_brand_model(t), t, b, t \o <<NL>> \o b, author)

\* lines 138-155: the fields extracted from a post's title, body and author
Extract(p) == ExtractFrom(Or(p.title, <<>>), Or(p.selftext, <<>>), p.author)

\* lines 148-157: the record with its Date Listed
Dated(f, date) ==
    [brand |-> f.brand, model |-> f.model, price |-> f.price,
     buyer_label |-> f.buyer_label, loc |-> f.loc, ship_dests |-> f.ship_dests,
     username |-> f.username, date |-> date]

\* lines 134-157 for a post inside the window: the record appended to rows
Record(post) == Dated(Extract(post), DateString(post.created_utc))

\* line 162: the Date Listed column parsed
ParseDates(frame, unit) ==
    [k \in DOMAIN frame |-> [frame[k] EXCEPT !.date = to_datetime(@, unit)]]

\* line 163 with ascending=True
SortsBeforeAscending(a, b) == a /= NaT /\ (b = NaT \/ a < b)

\* a row with key a must stand before a row with key b after
\* sort_values("Date Listed", ascending=False): later dates first, NaT last
SortsBefore(a, b) == a /= NaT /\ (b = NaT \/ a > b)

\* line 163: the orders sort_values can give.  The default kind is quicksort,
\* which is not stable, so rows with equal keys can come in any order.
sort_values(frame) ==
    {sorted \in {[k \in DOMAIN frame |-> frame[p[k]]] : p \in Permutations(DOMAIN frame)} :
        \A i, j \in DOMAIN sorted : i < j => ~SortsBefore(sorted[j].date, sorted[i].date)}

HarnessIdle == title = None /\ body = None /\ called = "" /\ ret = None

Init ==
    /\ pc = "start"
    /\ source \in UNION {[1..n -> Posts] : n \in 0..MaxPosts}
    /\ Len(source) <= FETCH_LIMIT
    /\ cutoff = 0
    /\ idx = 0
    /\ rows = <<>>
    /\ df = <<>>
    /\ files = <<>>
    /\ abort = "none"
    /\ HarnessIdle

\* lines 122-128: the client is built from the environment (a missing
\* variable raises KeyError) and the cutoff is taken from the clock
Start ==
    /\ pc = "start"
    /\ \E envOk \in BOOLEAN, now \in Clock :
          IF envOk
          THEN pc' = "scan" /\ cutoff' = MonthsBefore(now, MONTHS_BACK) /\ abort' = abort
          ELSE pc' = "aborted" /\ abort' = "env" /\ cutoff' = cutoff
    /\ UNCHANGED <<source, idx, rows, df, files, harnessVars>>

\* line 135 written with <= : a post created at the cutoff instant is dropped
TooOldInclusive(created) == created <= cutoff

\* the test of line 135
TooOld(created) == created < cutoff

\* lines 133-157: one turn of the for loop on the next post of the iterator
NextPost ==
    /\ pc = "scan"
    /\ idx < Len(source)
    /\ idx' = idx + 1
    /\ LET post == source[idx + 1]
       IN  IF TooOld(post.created_utc)
           THEN pc' = "frame" /\ rows' = rows
           ELSE pc' = pc /\ rows' = Append(rows, Record(post))
    /\ UNCHANGED <<source, cutoff, df, files, abort, harnessVars>>

\* line 133: the iterator is exhausted and the loop ends
Exhausted ==
    /\ pc = "scan"
    /\ idx = Len(source)
    /\ pc' = "frame"
    /\ UNCHANGED <<source, cutoff, idx, rows, df, files, abort, harnessVars>>

\* line 133: fetching from the listing raises; nothing catches it
SourceError ==
    /\ pc = "scan"
    /\ pc' = "aborted"
    /\ abort' = "source"
    /\ UNCHANGED <<source, cutoff, idx, rows, df, files, harnessVars>>

\* lines 159-163: a frame built from no rows has no columns, and selecting
\* "Date Listed" from it raises KeyError; otherwise the dates are parsed as
\* the build parses them and the rows sorted
BuildFrame ==
    /\ pc = "frame"
    /\ IF rows = <<>>
       THEN pc' = "aborted" /\ abort' = "KeyError" /\ df' = df
       ELSE /\ pc' = "write" /\ abort' = abort
            /\ \E unit \in Units : df' \in sort_values(ParseDates(rows, unit))
    /\ UNCHANGED <<source, cutoff, idx, rows, files, harnessVars>>

\* lines 166-168
WriteCsv ==
    /\ pc = "write"
    /\ files' = Append(files, df)
    /\ pc' = "done"
    /\ UNCHANGED <<source, cutoff, idx, rows, df, abort, harnessVars>>

Next == Start \/ NextPost \/ Exhausted \/ SourceError \/ BuildFrame \/ WriteCsv

Spec == Init /\ [][Next]_vars

(***************************************************************************)
(* The extractors on their own: each specification draws the input text    *)
(* from the texts that can be built from a few tokens and applies one      *)
(* extractor to it.                                                        *)
(***************************************************************************)
\* the texts made of at most n tokens
TextsUpTo(tokens, n) == {Flatten(ts) : ts \in UNION {[1..k -> tokens] : k \in 0..n}}

MainIdle ==
    /\ pc = "idle" /\ source = <<>> /\ cutoff = 0 /\ idx = 0
    /\ rows = <<>> /\ df = <<>> /\ files = <<>> /\ abort = "none"

\* ---- extract_price(text) ----
MaxPriceTokens == 4
PriceTokens == {Text(<<"$">>), Text(<<"U+20AC">>), Text(<<"1","2">>), Text(<<"1","2","3","4","5","6","7">>),
                Text(<<",">>), Text(<<".">>), Text(<<" ">>), Text(<<"u","s","d">>), Text(<<"E","U","R">>),
                Text(<<"U+0661","U+0662">>), Text(<<"U+00A0">>)}

InitPrice ==
    /\ MainIdle
    /\ title \in TextsUpTo(PriceTokens, MaxPriceTokens) \cup {None}
    /\ body = None /\ called = "" /\ ret = None

CallExtractPrice ==
    /\ called = ""
    /\ called' = "extract_price"
    /\ ret' = extract_price(title)
    /\ UNCHANGED <<mainVars, title, body>>

SpecPrice == InitPrice /\ [][CallExtractPrice]_vars

\* ---- lines 138-143: extract_price on title + newline + body ----
MaxTitleTokens == 2
MaxBodyTokens == 2
CombinedTokens == {Text(<<"$">>), Text(<<"U+20AC">>), Text(<<"1","2">>), Text(<<".">>), Text(<<"u","s","d">>), Text(<<"x">>)}

InitCombined ==
    /\ MainIdle
    /\ title \in TextsUpTo(CombinedTokens, MaxTitleTokens) \cup {None}
    /\ body \in TextsUpTo(CombinedTokens, MaxBodyTokens) \cup {None}
    /\ called = "" /\ ret = None

\* line 140 with the body put before the title
CombinedBodyFirst(t, b) == Or(b, <<>>) \o Text(<<"\n">>) \o Or(t, <<>>)

\* line 140
Combined(t, b) == Or(t, <<>>) \o Text(<<"\n">>) \o Or(b, <<>>)

CallCombinedPrice ==
    /\ called = ""
    /\ called' = "combined_price"
    /\ ret' = extract_price(Combined(title, body))
    /\ UNCHANGED <<mainVars, title, body>>

SpecCombined == InitCombined /\ [][CallCombinedPrice]_vars

\* ---- infer_buyer_label(text) ----
MaxLabelTokens == 3
LabelTokens == {Text(<<"b","u","y","e","r"," ">>), Text(<<"s","e","l","l","e","r"," ">>),
                Text(<<"p","r","o","v","i","d","e","s"," ">>), Text(<<"U+017F","e","n","d","s"," ">>),
                Text(<<"a"," ">>), Text(<<"l","a","b","e","l">>), Text(<<" ">>), Text(<<"U+00E9">>),
                Text(<<"B","u","y","e","r","U+2019","s"," ","l","a","b","e","l">>),
                Text(<<"b","u","y","e","r"," ","s","u","p","p","l","i","e","s"," ","l","a","b","e","l">>),
                Text(<<"S","h","i","p","p","i","n","g"," ","i","n","c","l","u","d","e","d">>),
                Text(<<"I"," ","w","i","l","l"," ","s","h","i","p">>)}

InitLabel ==
    /\ MainIdle
    /\ title \in TextsUpTo(LabelTokens, MaxLabelTokens) \cup {None}
    /\ body = None /\ called = "" /\ ret = None

CallInferBuyerLabel ==
    /\ called = ""
    /\ called' = "infer_buyer_label"
    /\ ret' = infer_buyer_label(title)
    /\ UNCHANGED <<mainVars, title, body>>

SpecLabel == InitLabel /\ [][CallInferBuyerLabel]_vars

\* ---- line 144: extract_location_from_title on title, then on body ----
MaxLocTitleTokens == 3
MaxLocBodyTokens == 1
LocationTokens == {Text(<<"[","W","T","S","]">>), Text(<<"[","C","A","]">>),
                   Text(<<"["," ","u","s","a","-","n","y"," ","]">>), Text(<<"[","a","b","]">>),
                   Text(<<"[","u","U+00DF","]">>), Text(<<"[">>)}
TitleCA == Text(<<"[","W","T","S","]"," ","[","C","A","]"," ","R","o","l","e","x"," ",
             "S","u","b","m","a","r","i","n","e","r">>)
TitleUSANY == Text(<<"[","W","T","S","]"," ","[","U","S","A","-","N","Y","]"," ",".",".",".">>)

InitLocation ==
    /\ MainIdle
    /\ title \in TextsUpTo(LocationTokens, MaxLocTitleTokens) \cup {TitleCA, TitleUSANY}
    /\ body \in TextsUpTo(LocationTokens, MaxLocBodyTokens)
    /\ called = "" /\ ret = None

CallExtractLocation ==
    /\ called = ""
    /\ called' = "extract_location"
    /\ ret' = extract_location(title, body)
    /\ UNCHANGED <<mainVars, title, body>>

SpecLocation == InitLocation /\ [][CallExtractLocation]_vars

\* ---- extract_brand_model(title) ----
MaxBrandTokens == 4
\* a space and a word of MODEL_MAX - 1 characters
LongTail == Text(<<" ">>) \o [k \in 1..(MODEL_MAX - 1) |-> Ord["x"]]
BrandTokens == {Text(<<"[","W","T","S","]">>), Text(<<" ">>), Text(<<"O","m","e","g","a">>), Text(<<"3","0","0">>),
                Text(<<"[">>), Text(<<"]">>), Text(<<"U+00A0">>), LongTail}
TitleOmega == Text(<<"[","W","T","S","]"," ","[","U","S","A","-","C","A","]"," ",
                "O","m","e","g","a"," ","S","e","a","m","a","s","t","e","r"," ","3","0","0">>)
TitleSolo == Text(<<"[","W","T","S","]"," ","S","o","l","o","T","o","k","e","n">>)

InitBrand ==
    /\ MainIdle
    /\ title \in TextsUpTo(BrandTokens, MaxBrandTokens) \cup {None, TitleOmega, TitleSolo}
    /\ body = None /\ called = "" /\ ret = None

CallExtractBrandModel ==
    /\ called = ""
    /\ called' = "extract_brand_model"
    /\ ret' = extract_brand_model(title)
    /\ UNCHANGED <<mainVars, title, body>>

SpecBrand == InitBrand /\ [][CallExtractBrandModel]_vars

\* ---- extract_ship_dests(text) ----
MaxShipTokens == 3
ShipTokens == {Text(<<"C","O","N","U","S">>), Text(<<"u","s","a">>), Text(<<"U","S"," ","o","n","l","y">>),
               Text(<<"c","a","n">>), Text(<<"C","a","n","a","d","a">>), Text(<<"E","U">>), Text(<<"u","U+212A">>),
               Text(<<"w","o","r","l","d","w","i","d","e">>), Text(<<" ">>), Text(<<",">>), Text(<<"x">>), Text(<<"U+0E01">>)}

InitShip ==
    /\ MainIdle
    /\ title \in TextsUpTo(ShipTokens, MaxShipTokens) \cup {None}
    /\ body = None /\ called = "" /\ ret = None

CallExtractShipDests ==
    /\ called = ""
    /\ called' = "extract_ship_dests"
    /\ ret' = extract_ship_dests(title)
    /\ UNCHANGED <<mainVars, title, body>>

SpecShip == InitShip /\ [][CallExtractShipDests]_vars

(***************************************************************************)
(* Properties of main(), checked under Spec                                *)
(***************************************************************************)
\* length of the longest prefix of src whose posts all have created >= c
PrefixLen(src, c) ==
    LET ok == {k \in 0..Len(src) : \A j \in 1..k : src[j].created_utc >= c}
    IN  CHOOSE k \in ok : \A m \in ok : m <= k

\* the for loop of line 133 has been left
ScanOver == pc \in {"frame", "write", "done"} \/ (pc = "aborted" /\ abort = "KeyError")

\* C1: the scan turns into records exactly the posts of the longest prefix of
\* the source in which every post has created >= cutoff, one record per post
\* and in source order; a post created at the cutoff is included, the first
\* post older than the cutoff ends the scan without becoming a record, and
\* no post after it is taken from the source.
C1_ScanTakesMaximalPrefix ==
    (pc \notin {"start", "idle"} /\ abort /= "env") =>
        LET k == PrefixLen(source, cutoff)
        IN  /\ idx <= Min(k + 1, Len(source))
            /\ Len(rows) = Min(idx, k)
            /\ \A j \in 1..Len(rows) :
                  /\ rows[j].date = DateString(source[j].created_utc)
                  /\ rows[j].username = IF source[j].author = None THEN None
                                        ELSE Text(<<"u","/">>) \o source[j].author
            /\ ScanOver => idx = Min(k + 1, Len(source))

\* a finished run whose first post was created at the cutoff, whose second
\* post is older and whose third is newer again: one record, two posts taken
C1_Witness ==
    /\ pc = "done"
    /\ Len(source) = 3
    /\ source[1].created_utc = cutoff
    /\ source[2].created_utc < cutoff
    /\ source[3].created_utc > cutoff
    /\ Len(rows) = 1
    /\ idx = 2

\* C2: a run has no partial outcome: it aborts with no file written, or the
\* scan completes and exactly one file is written; whenever the scan
\* completes without a source error, also with no post inside the window,
\* the file is written once.
C2_CompletedScanWritesOneFile ==
    pc \in {"done", "aborted"} =>
        IF abort \in {"env", "source"} THEN files = <<>> ELSE Len(files) = 1

\* C3: the rows handed to the export are a permutation of the collected
\* records, in non-increasing order of date, and a record whose date cannot
\* be parsed is kept and stands after every record with a parseable date.
C3_ExportSortedPermutation ==
    pc \in {"write", "done"} =>
        /\ Len(df) = Len(rows)
        /\ \E f \in Permutations(1..Len(rows)) :
              \A k \in 1..Len(rows) :
                 /\ [df[k] EXCEPT !.date = 0] = [rows[f[k]] EXCEPT !.date = 0]
                 /\ df[k].date \in {DayOfDate(rows[f[k]].date), NaT}
                 /\ df[k].date = NaT => DayOfDate(rows[f[k]].date) > TimestampMaxDay
        /\ \A i, j \in 1..Len(df) :
              i < j => /\ df[i].date = NaT => df[j].date = NaT
                       /\ (df[i].date /= NaT /\ df[j].date /= NaT) => df[i].date >= df[j].date
        /\ pc = "done" => files = <<df>>

\* three records collected out of order, the first with a date that could
\* not be parsed and stands last in the file written
C3_Witness ==
    /\ pc = "done"
    /\ Len(rows) = 3
    /\ DayOfDate(rows[1].date) > TimestampMaxDay
    /\ DayOfDate(rows[2].date) < DayOfDate(rows[3].date)
    /\ DayOfDate(rows[3].date) <= TimestampMaxDay
    /\ df[1].date = DayOfDate(rows[3].date)
    /\ df[3].date = NaT

(***************************************************************************)
(* Properties of extract_price                                             *)
(***************************************************************************)
AllDigits(s) == s /= <<>> /\ \A k \in DOMAIN s : IsDigit(s[k])

\* ^(USD|EUR) \d+(\.\d{2})?$
IsPriceForm(s) ==
    /\ Len(s) >= 5
    /\ SubSeq(s, 1, 4) \in {Text(<<"U","S","D"," ">>), Text(<<"E","U","R"," ">>)}
    /\ LET amount == SubSeq(s, 5, Len(s))
           n == Len(amount)
       IN  \/ AllDigits(amount)
           \/ /\ n >= 4
              /\ amount[n - 2] = Ord["."]
              /\ AllDigits(SubSeq(amount, 1, n - 3))
              /\ AllDigits(SubSeq(amount, n - 1, n))

\* the title and body as line 138 and 139 hand them on
TitleText == Or(title, <<>>)
BodyText == Or(body, <<>>)

\* C4 as claimed: the price of title + newline + body is the price of the
\* title when the title holds a price, and the price of the body otherwise.
C4_TitlePriceElseBodyPrice ==
    called = "combined_price" =>
        ret = IF extract_price(TitleText) /= None THEN extract_price(TitleText)
              ELSE extract_price(BodyText)

\* the leftmost match of the combined text starts inside the title although
\* the title alone holds no price: it runs over the joining newline
SpansJoin ==
    /\ extract_price(TitleText) = None
    /\ PRICE_RE_search(Combined(title, body)).start \in 1..Len(TitleText)

\* C4, amended: the price is that of the leftmost match of title + newline +
\* body; it is the price of the title when the title holds a price; when the
\* title holds none it is the price of the body, unless a match of the
\* combined text starts in the title and runs over the newline into the body,
\* and then that match gives the price.
C4_LeftmostMatchOfCombined ==
    called = "combined_price" =>
        LET combined == TitleText \o Text(<<"\n">>) \o BodyText
            at == {i \in 1..Len(combined) : PRICE_RE_at(combined, i) /= NoMatch}
        IN  /\ ret = None <=> at = {}
            /\ at /= {} => ret = extract_price(Slice(combined, Least(at), Len(combined)))
            /\ extract_price(TitleText) /= None => ret = extract_price(TitleText)
            /\ (extract_price(TitleText) = None /\ ~SpansJoin) => ret = extract_price(BodyText)
            /\ SpansJoin => /\ ret /= None
                            /\ Least(at) <= Len(TitleText)
                            /\ PRICE_RE_at(TitleText, Least(at)) = NoMatch

\* title "12", body "usd": neither holds a price, the combined text does
C4_Witness ==
    /\ called = "combined_price"
    /\ SpansJoin
    /\ extract_price(BodyText) = None
    /\ title = Text(<<"1","2">>)
    /\ ret = Text(<<"U","S","D"," ","1","2">>)

\* C5: extract_price returns None or a text of the form USD or EUR, a space,
\* one or more digits and optionally a point and exactly two digits, a digit
\* being what \d of the claim's pattern matches: 0-9 and the other decimal
\* digits ("$" and U+0661 U+0662 give "USD " and the same two digits).
C5_PriceForm ==
    called = "extract_price" => (ret = None \/ IsPriceForm(ret))

\* "$12,12" gives "USD 1212": the comma is gone and the form is kept
C5_Witness ==
    /\ called = "extract_price"
    /\ title = Text(<<"$","1","2",",","1","2">>)
    /\ ret = Text(<<"U","S","D"," ","1","2","1","2">>)

\* C6: when the matched amount is digits, a decimal separator ("." or ",")
\* and exactly two fractional digits, the text returned is the currency, a
\* space, the integer digits, a point and the two fractional digits.
C6_DecimalSeparatorNormalized ==
    (called = "extract_price" /\ title /= None) =>
        LET m == PRICE_RE_search(title)
            usd == Or(m.usd1, m.usd2)
            val == IF usd /= None THEN usd ELSE Or(m.eur, m.eur2)
            n == Len(val)
        IN  (m /= NoMatch /\ n >= 5 /\ val[n - 2] \in {Ord["."], Ord[","]}) =>
                ret = (IF usd /= None THEN Text(<<"U","S","D">>) ELSE Text(<<"E","U","R">>))
                      \o Text(<<" ">>) \o SubSeq(val, 1, n - 3) \o Text(<<".">>) \o SubSeq(val, n - 1, n)

(***************************************************************************)
(* Properties of infer_buyer_label                                         *)
(***************************************************************************)
YesPhrase(text) ==
    text /= None /\ \E k \in DOMAIN LABEL_YES_PATTERNS : SearchWords(text, LABEL_YES_PATTERNS[k])
NoPhrase(text) ==
    text /= None /\ \E k \in DOMAIN LABEL_NO_PATTERNS : SearchWords(text, LABEL_NO_PATTERNS[k])

\* C7: infer_buyer_label returns yes, no or None (unknown); yes whenever a
\* yes-phrase occurs, also beside a no-phrase; no exactly when no yes-phrase
\* and some no-phrase occurs; None exactly when neither occurs.
C7_LabelPrecedence ==
    called = "infer_buyer_label" =>
        /\ ret \in {YES, NO, None}
        /\ ret = YES <=> YesPhrase(title)
        /\ ret = NO <=> (~YesPhrase(title) /\ NoPhrase(title))
        /\ ret = None <=> (~YesPhrase(title) /\ ~NoPhrase(title))

\* "I will ship buyer supplies label": a no-phrase, then a yes-phrase
C7_Witness ==
    /\ called = "infer_buyer_label"
    /\ title = Text(<<"I"," ","w","i","l","l"," ","s","h","i","p"," ",
                 "b","u","y","e","r"," ","s","u","p","p","l","i","e","s"," ","l","a","b","e","l">>)
    /\ NoPhrase(title)
    /\ ret = YES

(***************************************************************************)
(* Properties of extract_location                                          *)
(***************************************************************************)
\* the trimmed tag qualifies: its upper-cased content holds one of the seven
\* words, or it is exactly two uppercase letters
Qualifies(tt) ==
    \/ \E w \in {Text(<<"U","S","A">>), Text(<<"U","S">>), Text(<<"C","A","N">>), Text(<<"E","U">>), Text(<<"U","K">>),
                 Text(<<"A","U","S">>), Text(<<"N","Z">>)} : Contains(Upper(tt), w)
    \/ (Len(tt) = 2 /\ IsUpper(tt[1]) /\ IsUpper(tt[2]))

\* the tags, trimmed
Trimmed(tags) == [k \in DOMAIN tags |-> Strip(tags[k])]

\* the qualifying tags of a text, trimmed, in textual order
QualifyingTags(text) == SelectSeq(Trimmed(TITLE_TAG_RE_findall(text)), Qualifies)

\* the first of the tags inTitle, else the first of the tags inBody, else None
FirstOfEither(inTitle, inBody) ==
    IF inTitle /= <<>> THEN inTitle[1]
    ELSE IF inBody /= <<>> THEN inBody[1]
    ELSE None

\* C8: the location is the first qualifying bracket tag of the title, trimmed
\* and in its original case; the body is consulted only when no tag of the
\* title qualifies; None only when neither has a qualifying tag.  A tag
\* qualifies if its upper-cased content holds one of the seven words or if it
\* is two letters of A-Z.  WTS does not qualify: "[WTS] [CA] Rolex
\* Submariner" gives "CA" and "[WTS] [USA-NY] ..." gives "USA-NY".
C8_FirstQualifyingTag ==
    called = "extract_location" =>
        /\ ret = FirstOfEither(QualifyingTags(title), QualifyingTags(body))
        /\ ~Qualifies(Text(<<"W","T","S">>))
        /\ title = TitleCA => ret = Text(<<"C","A">>)
        /\ title = TitleUSANY => ret = Text(<<"U","S","A","-","N","Y">>)

\* the title's first tag is a status tag, its second qualifies, and the body
\* has a qualifying tag of its own
C8_Witness ==
    /\ called = "extract_location"
    /\ title = Text(<<"[","W","T","S","]","[","a","b","]","[","C","A","]">>)
    /\ body = Text(<<"["," ","u","s","a","-","n","y"," ","]">>)
    /\ ret = Text(<<"C","A">>)

(***************************************************************************)
(* Properties of extract_brand_model                                       *)
(***************************************************************************)
\* the text with every bracket-tag span taken out, and nothing else
RECURSIVE StripSpans(_, _)
StripSpans(text, i) ==
    LET p == NextTag(text, i)
    IN  IF p = 0 THEN Slice(text, i, Len(text))
        ELSE Slice(text, i, p - 1) \o StripSpans(text, TagEnd(text, p) + 1)

\* the tokens left of the title once every bracket-tag span is taken out
SpanFreeTokens == IF title = None THEN <<>> ELSE Split(StripSpans(title, 1))

\* the tokens left of the title once every bracket-tag span is taken out
\* together with the whitespace that directly follows it
TitleTokens == IF title = None THEN <<>> ELSE Split(SubTags(title, 1))

\* what the claim says of the tokens toks and the result
BrandModelOf(toks) ==
    LET joined == Join(Tail(toks), Text(<<" ">>))
    IN  /\ Len(toks) = 0 => ret = <<None, None>>
        /\ Len(toks) = 1 => ret = <<toks[1], None>>
        /\ Len(toks) >= 2 => /\ ret[1] = toks[1]
                             /\ Len(ret[2]) <= 200
                             /\ Len(ret[2]) = Min(Len(joined), 200)
                             /\ ret[2] = SubSeq(joined, 1, Len(ret[2]))
        /\ \A k \in 1..2 : /\ ret[k] /= <<>>
                           /\ ret[k] /= None => NextTag(ret[k], 1) = 0
        /\ title = TitleOmega =>
              ret = << Text(<<"O","m","e","g","a">>),
                       Text(<<"S","e","a","m","a","s","t","e","r"," ","3","0","0">>) >>
        /\ title = TitleSolo =>
              ret = << Text(<<"S","o","l","o","T","o","k","e","n">>), None >>

\* C9 as claimed: the bracket-tag spans are stripped and the rest is split on
\* whitespace; with no token left the result is (None, None); with one token
\* it is (that token, None); otherwise the brand is the first token and the
\* model the other tokens joined by single spaces, cut to 200 characters.
\* Neither value is the empty text or holds a bracket-tag span.
C9_SpansStrippedThenSplit ==
    called = "extract_brand_model" => BrandModelOf(SpanFreeTokens)

\* C9, amended: each bracket-tag span is stripped together with all the
\* whitespace that directly follows it, so the text before a span and the
\* text after that whitespace become one token; the rest of the claim holds
\* of the tokens that remain.
C9_BrandModelSplit ==
    called = "extract_brand_model" => BrandModelOf(TitleTokens)

\* "Omega[WTS] 300": the span and the space after it go, one token is left
C9_Witness ==
    /\ called = "extract_brand_model"
    /\ title = Text(<<"O","m","e","g","a","[","W","T","S","]"," ","3","0","0">>)
    /\ Len(SpanFreeTokens) = 2
    /\ ret = << Text(<<"O","m","e","g","a","3","0","0">>), None >>

(***************************************************************************)
(* Properties of extract_ship_dests                                        *)
(***************************************************************************)
\* the hints that match the text, by their place in the declaration
MatchingHints(text) ==
    IF text = None THEN {}
    ELSE {k \in DOMAIN SHIP_DEST_HINTS : SearchWords(text, SHIP_DEST_HINTS[k].rx)}

\* the k-th smallest element of a set of integers
RECURSIVE Nth(_, _)
Nth(S, k) == IF k = 1 THEN Least(S) ELSE Nth(S \ {Least(S)}, k - 1)

\* C10: extract_ship_dests returns None exactly when no hint matches;
\* otherwise exactly the tags whose hint matches, each once, in the order
\* CONUS, USA, CANADA, EU, UK, WORLDWIDE wherever the phrases stand in the
\* text, joined by ", ".
C10_ShipDestsInDeclarationOrder ==
    called = "extract_ship_dests" =>
        LET M == MatchingHints(title)
            order == << Text(<<"C","O","N","U","S">>), Text(<<"U","S","A">>), Text(<<"C","A","N","A","D","A">>),
                        Text(<<"E","U">>), Text(<<"U","K">>), Text(<<"W","O","R","L","D","W","I","D","E">>) >>
            tags == [i \in 1..Cardinality(M) |-> order[Nth(M, i)]]
        IN  /\ ret = None <=> M = {}
            /\ M /= {} => ret = Join(tags, Text(<<",", " ">>))
            /\ \A i, j \in DOMAIN tags : i /= j => tags[i] /= tags[j]

\* "worldwide,CONUS": two hints match, standing against the declaration order
C10_Witness ==
    /\ called = "extract_ship_dests"
    /\ title = Text(<<"w","o","r","l","d","w","i","d","e",",","C","O","N","U","S">>)
    /\ ret = Text(<<"C","O","N","U","S",","," ","W","O","R","L","D","W","I","D","E">>)

====
